---------------------------- MODULE Spec2Model ----------------------------
(***************************************************************************)
(* Mesh validation, repair and STL export pipeline of MichelangeloCC.       *)
(*                                                                         *)
(* A mesh is a record [v |-> sequence of points, f |-> sequence of faces]: *)
(* a point is a triple of integers (millimetres), a face a triple of       *)
(* 1-based vertex indices.  Python objects that are mutated in place       *)
(* (trimesh.Trimesh) live in a heap keyed by a reference, so that aliasing *)
(* between the caller's mesh, the working copy and the returned mesh is    *)
(* part of the model.                                                      *)
(*                                                                         *)
(* Units.  Volumes are kept multiplied by 6 and areas multiplied by 2, so  *)
(* that all geometry is integer arithmetic; thresholds are rescaled in the *)
(* comparisons that use them.                                              *)
(***************************************************************************)
EXTENDS Integers, Sequences, FiniteSets, TLC

\* ------------------------------------------------------------------ bounds
\* Longest explicit action list handed to repair().
MaxActions == 2

\* The most tessellations of one model that a behaviour holds.
MaxTessellations == 2

\* The last reading of the clock, in ticks of a quarter of a second.
MaxTime == 6

\* The most file-system events that wait for the observer thread.
MaxPending == 1

\* The most websocket clients the viewer has had.
\* Connection attempts of wait_for_server_ready that fit in its timeout.
MaxPolls == 3

MaxClients == 3

\* ------------------------------------------------------ sequence helpers
Range(s) == { s[i] : i \in 1..Len(s) }

Min2(a, b) == IF a <= b THEN a ELSE b

Max2(a, b) == IF a >= b THEN a ELSE b

Abs(x) == IF x < 0 THEN -x ELSE x

RECURSIVE SumSeq(_)
SumSeq(s) == IF s = <<>> THEN 0 ELSE Head(s) + SumSeq(Tail(s))

RECURSIVE SelectIdx(_, _, _)
\* The indices i..Len(s) of s whose position is in `keep`, in order.
SelectIdx(n, keep, i) ==
    IF i > n THEN <<>>
    ELSE IF i \in keep THEN <<i>> \o SelectIdx(n, keep, i + 1)
    ELSE SelectIdx(n, keep, i + 1)

MinOf(S) == CHOOSE x \in S : \A y \in S : x <= y

MaxOf(S) == CHOOSE x \in S : \A y \in S : x >= y

\* Floor of the square root; exact on the perfect squares the input solids
\* produce.
ISqrt(n) == CHOOSE r \in 0..n : r * r <= n /\ (r + 1) * (r + 1) > n

\* ------------------------------------------------------- vector geometry
Sub(p, q) == << p[1] - q[1], p[2] - q[2], p[3] - q[3] >>

Cross(a, b) ==
    << a[2] * b[3] - a[3] * b[2],
       a[3] * b[1] - a[1] * b[3],
       a[1] * b[2] - a[2] * b[1] >>

NormSq(a) == a[1] * a[1] + a[2] * a[2] + a[3] * a[3]

\* ------------------------------------------------------ mesh properties
\* trimesh derived properties, as validator.py and repairer.py read them.
FaceIdx(m) == 1..Len(m.f)

\* mesh.triangles_cross: (v1 - v0) x (v2 - v0) of one face.
FaceCross(m, i) ==
    LET p0 == m.v[m.f[i][1]]
        p1 == m.v[m.f[i][2]]
        p2 == m.v[m.f[i][3]]
    IN Cross(Sub(p1, p0), Sub(p2, p0))

\* mesh.edges: the three directed edges of every face, tagged by face and slot.
DirEdges(m) ==
    { [face |-> i, a |-> m.f[i][k], b |-> m.f[i][(k % 3) + 1]] :
        i \in FaceIdx(m), k \in 1..3 }

\* mesh.edges_sorted: an undirected edge is the pair <<low, high>>.
SortedEdge(e) == IF e.a <= e.b THEN << e.a, e.b >> ELSE << e.b, e.a >>

\* The number of directed edges in D whose sorted form is k.
CountIn(D, k) == Cardinality({ e \in D : SortedEdge(e) = k })

\* np.unique(edges, axis=0, return_counts=True): the count of one sorted edge.
EdgeCount(m, k) == CountIn(DirEdges(m), k)

\* mesh.is_empty / mesh.bounds is None: no vertex is referenced by a face.
IsEmpty(m) == Len(m.f) = 0

\* mesh.is_watertight: every edge is included in exactly two faces.
IsWatertight(m) ==
    /\ ~IsEmpty(m)
    /\ LET D == DirEdges(m)
       IN \A k \in { SortedEdge(e) : e \in D } : CountIn(D, k) = 2

\* mesh.is_winding_consistent: every edge shared by exactly two faces is
\* traversed in opposite directions by them.
IsWindingConsistent(m) ==
    /\ ~IsEmpty(m)
    /\ LET D == DirEdges(m)
       IN \A e1 \in D :
            LET k == SortedEdge(e1)
                twins == { e2 \in D : e2 # e1 /\ SortedEdge(e2) = k }
            IN Cardinality(twins) = 1 =>
                  \A e2 \in twins : e1.a = e2.b /\ e1.b = e2.a

\* 6 * mesh.volume: the surface integral trimesh evaluates, signed.
Volume6(m) ==
    SumSeq([ i \in FaceIdx(m) |->
        FaceCross(m, i)[1] *
          (m.v[m.f[i][1]][1] + m.v[m.f[i][2]][1] + m.v[m.f[i][3]][1]) ])

\* 2 * mesh.area_faces[i].
FaceArea2(m, i) == ISqrt(NormSq(FaceCross(m, i)))

\* 2 * mesh.area.
Area2(m) == SumSeq([ i \in FaceIdx(m) |-> FaceArea2(m, i) ])

\* Vertices referenced by at least one face.
Referenced(m) == UNION { Range(m.f[i]) : i \in FaceIdx(m) }

\* mesh.bounds[1] - mesh.bounds[0], per axis, over the referenced vertices.
Dims(m) ==
    [ ax \in 1..3 |->
        MaxOf({ m.v[j][ax] : j \in Referenced(m) })
          - MinOf({ m.v[j][ax] : j \in Referenced(m) }) ]

\* mesh.bounds as (min3, max3).
BoundingBox(m) ==
    << [ ax \in 1..3 |-> MinOf({ m.v[j][ax] : j \in Referenced(m) }) ],
       [ ax \in 1..3 |-> MaxOf({ m.v[j][ax] : j \in Referenced(m) }) ] >>


\* --------------------------------------------- in-place mesh operations
\* trimesh methods the repairer calls; each returns the mesh value the
\* mutated object holds afterwards.

PosIn(seq, x) == CHOOSE i \in 1..Len(seq) : seq[i] = x

\* Trimesh.update_vertices(mask, inverse): keep the vertices listed in
\* `order` (old indices) and rewrite every face index through `inverse`.
Reindex(m, order, inverse) ==
    [ v |-> [ n \in 1..Len(order) |-> m.v[order[n]] ],
      f |-> [ i \in FaceIdx(m) |-> [ k \in 1..3 |-> inverse[m.f[i][k]] ] ] ]

\* Trimesh.merge_vertices(merge_tex=True, merge_norm=True): vertices at the
\* same position collapse onto their first occurrence; with faces present,
\* vertices no face references are culled.
MergeVerticesOp(m) ==
    LET ref == IF Len(m.f) > 0 THEN Referenced(m) ELSE 1..Len(m.v)
        first(j) == MinOf({ j2 \in ref : m.v[j2] = m.v[j] })
        keep == { j \in ref : first(j) = j }
        order == SelectIdx(Len(m.v), keep, 1)
        inverse == [ j \in ref |-> PosIn(order, first(j)) ]
    IN Reindex(m, order, inverse)

\* Trimesh.update_faces(mask): keep the faces whose index is in `keep`.
UpdateFaces(m, keep) ==
    LET order == SelectIdx(Len(m.f), keep, 1)
    IN [ v |-> m.v, f |-> [ n \in 1..Len(order) |-> m.f[order[n]] ] ]

\* A face is degenerate when its area is below the library's epsilon; on
\* integer coordinates that is a zero cross product.
IsDegenerateFace(m, i) == NormSq(FaceCross(m, i)) = 0

\* Trimesh.remove_degenerate_faces().
RemoveDegenerateFacesOp(m) ==
    UpdateFaces(m, { i \in FaceIdx(m) : ~IsDegenerateFace(m, i) })

\* Trimesh.remove_unreferenced_vertices().
RemoveUnreferencedVerticesOp(m) ==
    LET keep == Referenced(m)
        order == SelectIdx(Len(m.v), keep, 1)
        inverse == [ j \in keep |-> PosIn(order, j) ]
    IN Reindex(m, order, inverse)

\* face[::-1]
Reverse(face) == << face[3], face[2], face[1] >>

FaceDirEdges(face) ==
    { << face[k], face[(k % 3) + 1] >> : k \in 1..3 }

FaceSortedEdges(face) ==
    { << Min2(e[1], e[2]), Max2(e[1], e[2]) >> : e \in FaceDirEdges(face) }

\* mesh.face_adjacency: pairs of faces that share an edge included in
\* exactly two faces.
Adjacent(m, i, j) ==
    /\ i # j
    /\ FaceSortedEdges(m.f[i]) \cap FaceSortedEdges(m.f[j]) # {}
    /\ \E k \in FaceSortedEdges(m.f[i]) \cap FaceSortedEdges(m.f[j]) :
          EdgeCount(m, k) = 2

RECURSIVE WindingWalk(_, _, _)
\* repair.fix_winding: a traversal of the face-adjacency graph in which the
\* face already visited is the truth and a neighbour traversing the shared
\* edge in the same direction is reversed.  `faces` is the working copy of
\* mesh.faces, `seen` the faces visited so far.
WindingWalk(m, faces, seen) ==
    LET frontier == { j \in FaceIdx(m) \ seen :
                        \E i \in seen : Adjacent(m, i, j) }
    IN IF frontier # {}
       THEN LET j == MinOf(frontier)
                i == MinOf({ i2 \in seen : Adjacent(m, i2, j) })
                same == FaceDirEdges(faces[i]) \cap FaceDirEdges(faces[j]) # {}
            IN WindingWalk(m,
                           IF same THEN [faces EXCEPT ![j] = Reverse(faces[j])]
                                   ELSE faces,
                           seen \cup {j})
       ELSE IF seen # FaceIdx(m)
       THEN WindingWalk(m, faces, seen \cup { MinOf(FaceIdx(m) \ seen) })
       ELSE faces

FixWindingOp(m) ==
    IF IsWindingConsistent(m) \/ IsEmpty(m) THEN m
    ELSE [ v |-> m.v, f |-> WindingWalk(m, m.f, {}) ]

\* repair.fix_inversion(mesh, multibody=False): a negative volume means the
\* faces point inward, and every face is reversed.
FixInversionOp(m) ==
    IF Volume6(m) < 0
    THEN [ v |-> m.v, f |-> [ i \in FaceIdx(m) |-> Reverse(m.f[i]) ] ]
    ELSE m

\* Trimesh.fix_normals()
FixNormalsOp(m) == FixInversionOp(FixWindingOp(m))

\* ------------------------------------------------------------ fill_holes
LexLess(a, b) ==
    \/ a[1] < b[1]
    \/ a[1] = b[1] /\ a[2] < b[2]
    \/ a[1] = b[1] /\ a[2] = b[2] /\ a[3] < b[3]

RECURSIVE SortFaces(_)
\* A set of index triples as a sequence, in lexicographic order.
SortFaces(S) ==
    IF S = {} THEN <<>>
    ELSE LET lo == CHOOSE x \in S : \A y \in S \ {x} : LexLess(x, y)
         IN <<lo>> \o SortFaces(S \ {lo})

\* Edges included in exactly one face: the hole boundaries.
BoundaryEdges(m) ==
    LET D == DirEdges(m)
    IN { k \in { SortedEdge(e) : e \in D } : CountIn(D, k) = 1 }

SE(a, b) == << Min2(a, b), Max2(a, b) >>

\* Holes that are a single missing triangle: cycles of three edges of the
\* boundary B, over vertices 1..n.
TriangleHoles(B, n) ==
    { h \in { << e[1], e[2], c >> : e \in B, c \in 1..n } :
        /\ h[1] < h[2] /\ h[2] < h[3]
        /\ SE(h[2], h[3]) \in B
        /\ SE(h[1], h[3]) \in B }

\* Holes that are a quad: chordless cycles of four boundary edges, written
\* from their lowest vertex towards its lower neighbour.
QuadHoles(B, n) ==
    { h \in { << e[1], e[2], c, g[2] >> : e \in B, g \in B, c \in 1..n } :
        /\ h[1] < h[2] /\ h[1] < h[3] /\ h[2] < h[4]
        /\ h[2] # h[3] /\ h[3] # h[4]
        /\ SE(h[1], h[4]) \in B
        /\ SE(h[2], h[3]) \in B
        /\ SE(h[3], h[4]) \in B
        /\ SE(h[1], h[3]) \notin B
        /\ SE(h[2], h[4]) \notin B }

\* hole_to_faces: one face for a triangle, two for a quad, none for larger
\* holes.  The vertex a cycle starts at is the graph library's choice;
\* `alt` selects the other diagonal of a quad.
HoleFaces(B, n, alt) ==
    { << h[1], h[2], h[3] >> : h \in TriangleHoles(B, n) }
      \cup UNION { IF alt
                   THEN { << h[2], h[3], h[4] >>, << h[4], h[1], h[2] >> }
                   ELSE { << h[1], h[2], h[3] >>, << h[3], h[4], h[1] >> }
                   : h \in QuadHoles(B, n) }

\* New faces wind against the faces they join: a new face that traverses an
\* existing edge in the existing direction is reversed.
OrientNew(D, face) ==
    IF \E e \in D : << e.a, e.b >> \in FaceDirEdges(face)
    THEN Reverse(face)
    ELSE face

\* repair.fill_holes(mesh), in place.
FillHolesOp(m, alt) ==
    LET B == BoundaryEdges(m)
        D == DirEdges(m)
        new == SortFaces(HoleFaces(B, Len(m.v), alt))
    IN IF Len(m.f) < 3 \/ IsWatertight(m) \/ Cardinality(B) < 3
       THEN m
       ELSE [ v |-> m.v,
              f |-> m.f \o [ n \in 1..Len(new) |-> OrientNew(D, new[n]) ] ]

\* ------------------------------------------------------------- validator
\* Optional[T]: None is the empty tuple, a present value a one-tuple.
None == << >>

Some(x) == << x >>

\* MeshValidator.__init__ defaults: min_wall_thickness 0.8 mm (in tenths),
\* min_volume 0.001 mm^3 (in thousandths), max_dimensions 300 mm per axis.
DefaultMinWallTenths == 8

DefaultMinVolumeMilli == 1

DefaultMaxDimension == 300

DefaultConfig ==
    [ min_wall_tenths  |-> DefaultMinWallTenths,
      min_volume_milli |-> DefaultMinVolumeMilli,
      max_dimensions   |-> << DefaultMaxDimension, DefaultMaxDimension,
                              DefaultMaxDimension >> ]

\* A validator for a small printer and thick walls.
StrictConfig ==
    [ min_wall_tenths  |-> 10 * DefaultMinWallTenths,
      min_volume_milli |-> 1000 * DefaultMinVolumeMilli,
      max_dimensions   |-> << 1, 1, 1 >> ]

Configs == { DefaultConfig, StrictConfig }

\* details=None of a ValidationIssue.
NoDetails == [ absent |-> TRUE ]

Issue(sev, code, details) ==
    [ severity |-> sev, code |-> code, details |-> details ]

\* Bug variant: every edge that is not in exactly two faces counts as open.
CheckWatertight_AnyBadEdge(m) ==
    LET D == DirEdges(m)
        boundary_count ==
            Cardinality({ k \in { SortedEdge(e) : e \in D } : CountIn(D, k) # 2 })
    IN IF boundary_count > 0
       THEN << Issue("WARNING", "BOUNDARY_EDGES",
                     [ boundary_edge_count |-> boundary_count ]) >>
       ELSE << >>

\* MeshValidator._check_watertight
CheckWatertight(m) ==
    LET boundary_count == Cardinality(BoundaryEdges(m))
    IN IF boundary_count > 0
       THEN << Issue("WARNING", "BOUNDARY_EDGES",
                     [ boundary_edge_count |-> boundary_count ]) >>
       ELSE << >>

\* MeshValidator._check_degenerate_faces
CheckDegenerateFaces(m) ==
    LET degenerate_count ==
            Cardinality({ i \in FaceIdx(m) : IsDegenerateFace(m, i) })
    IN IF degenerate_count > 0
       THEN << Issue("WARNING", "DEGENERATE_FACES",
                     [ degenerate_count |-> degenerate_count ]) >>
       ELSE << >>

\* MeshValidator._check_winding
CheckWinding(m) ==
    IF ~IsWindingConsistent(m)
    THEN << Issue("WARNING", "INCONSISTENT_WINDING", NoDetails) >>
    ELSE << >>

AxisName(ax) == << "X", "Y", "Z" >>[ax]

RECURSIVE BuildVolumeIssues(_, _, _)
\* The loop over (dim, max_dim, axis) of _check_printability.
BuildVolumeIssues(dims, max_dimensions, ax) ==
    IF ax > 3 THEN << >>
    ELSE ( IF dims[ax] > max_dimensions[ax]
           THEN << Issue("WARNING", "EXCEEDS_BUILD_VOLUME",
                         [ axis |-> AxisName(ax), size |-> dims[ax],
                           max_size |-> max_dimensions[ax] ]) >>
           ELSE << >> )
         \o BuildVolumeIssues(dims, max_dimensions, ax + 1)

\* MeshValidator._check_printability.  volume is Optional, times 6.
CheckPrintability(m, volume, cfg) ==
    ( IF volume # None /\ volume[1] * 1000 < 6 * cfg.min_volume_milli
      THEN << Issue("WARNING", "SMALL_VOLUME",
                    [ volume6 |-> volume[1],
                      min_volume_milli |-> cfg.min_volume_milli ]) >>
      ELSE << >> )
    \o BuildVolumeIssues(Dims(m), cfg.max_dimensions, 1)
    \o ( IF /\ volume # None
            /\ Area2(m) > 0
            /\ volume[1] * 100 < cfg.min_wall_tenths * 3 * Area2(m)
         THEN << Issue("INFO", "POSSIBLY_THIN",
                       [ volume6 |-> volume[1], area2 |-> Area2(m) ]) >>
         ELSE << >> )

HasErrors(issues) ==
    \E n \in 1..Len(issues) : issues[n].severity = "ERROR"

\* Bug variant: the volume is computed whether or not the mesh is closed.
ReportedVolume_Always(m, is_watertight) == Some(Volume6(m))

\* validate, "Volume (only valid if watertight)".
ReportedVolume(m, is_watertight) ==
    IF is_watertight THEN Some(Volume6(m)) ELSE None

\* validate, the else branch of the volume block.
WatertightIssue(is_watertight) ==
    IF is_watertight THEN << >>
    ELSE << Issue("ERROR", "NOT_WATERTIGHT", [ is_watertight |-> FALSE ]) >>

\* Bug variant: any issue, whatever its severity, makes the mesh invalid.
IsValid_NoIssues(issues, is_watertight) == Len(issues) = 0

\* validate, "Determine overall validity".
IsValid(issues, is_watertight) == ~HasErrors(issues)

\* Bug variant: any issue, whatever its severity, blocks printability.
IsPrintable_NoIssues(issues, is_watertight) ==
    is_watertight /\ Len(issues) = 0

\* validate, is_printable = is_watertight and not has_errors.
IsPrintable(issues, is_watertight) == is_watertight /\ ~HasErrors(issues)

\* MeshValidator.validate: the value returned, or the exception raised when
\* mesh.bounds is None (no face references a vertex).
Validate(m, cfg) ==
    IF IsEmpty(m) THEN [ kind |-> "raised", exc |-> "TypeError" ]
    ELSE
    LET is_watertight == IsWatertight(m)
        volume == ReportedVolume(m, is_watertight)
        issues ==
            WatertightIssue(is_watertight)
            \o CheckWatertight(m)
            \o CheckDegenerateFaces(m)
            \o CheckWinding(m)
            \o CheckPrintability(m, volume, cfg)
    IN [ kind           |-> "returned",
         is_valid       |-> IsValid(issues, is_watertight),
         is_watertight  |-> is_watertight,
         is_printable   |-> IsPrintable(issues, is_watertight),
         volume         |-> volume,
         surface_area   |-> Area2(m),
         triangle_count |-> Len(m.f),
         vertex_count   |-> Len(m.v),
         bounding_box   |-> BoundingBox(m),
         issues         |-> issues ]

\* -------------------------------------------------------------- repairer
\* RepairAction
RepairActions ==
    { "FILL_HOLES", "FIX_NORMALS", "REMOVE_DUPLICATES", "REMOVE_DEGENERATE",
      "MERGE_VERTICES", "PYMESHFIX_REPAIR" }

\* RepairLog; the description is kept as the kind of text written.
RepairLog(action, description, affected_elements, success) ==
    [ action |-> action, description |-> description,
      affected_elements |-> affected_elements, success |-> success ]

\* The heap of mesh objects a call can touch, keyed by reference: the
\* caller's mesh, repair()'s working copy, repair_aggressive()'s mesh_copy
\* and the mesh built from the backend's output.
Refs == { "caller", "work", "mesh_copy", "repaired" }

Unallocated == [ v |-> << >>, f |-> << >> ]

NewHeap(m) == [ r \in Refs |-> IF r = "caller" THEN m ELSE Unallocated ]

\* Bug variant: no copy is taken, the same object is worked on.
Copy_Alias(heap, ref, new) == [ heap |-> heap, mesh |-> ref ]

\* mesh.copy(): a new object `new` holding the value of `ref`.
Copy(heap, ref, new) ==
    [ heap |-> [ heap EXCEPT ![new] = heap[ref] ], mesh |-> new ]

\* What a handler hands back: the (mesh, RepairLog) tuple.
Pair(heap, ref, entry) ==
    [ kind |-> "tuple", heap |-> heap, mesh |-> ref, entry |-> entry ]

\* MeshRepairer._merge_vertices
MergeVertices(heap, ref) ==
    LET original_count == Len(heap[ref].v)
        after == MergeVerticesOp(heap[ref])
        merged == original_count - Len(after.v)
    IN Pair([ heap EXCEPT ![ref] = after ], ref,
            RepairLog("MERGE_VERTICES", "merged", merged, TRUE))

\* MeshRepairer._remove_degenerate_faces
RemoveDegenerateFaces(heap, ref) ==
    LET original_count == Len(heap[ref].f)
        after == RemoveUnreferencedVerticesOp(
                     RemoveDegenerateFacesOp(heap[ref]))
        removed == original_count - Len(after.f)
    IN Pair([ heap EXCEPT ![ref] = after ], ref,
            RepairLog("REMOVE_DEGENERATE", "removed", removed, TRUE))

\* MeshRepairer._fix_normals; `throws`: the library call raises.
FixNormals(heap, ref, throws) ==
    IF throws
    THEN Pair(heap, ref, RepairLog("FIX_NORMALS", "failed", 0, FALSE))
    ELSE LET after == FixNormalsOp(heap[ref])
         IN Pair([ heap EXCEPT ![ref] = after ], ref,
                 RepairLog("FIX_NORMALS", "fixed", Len(after.f), TRUE))

\* Bug variant: a fill pass that ran through counts as a success, whether or
\* not it closed the mesh.
FillHoles_ReportsAttempt(heap, ref, throws, alt) ==
    IF IsWatertight(heap[ref])
    THEN Pair(heap, ref, RepairLog("FILL_HOLES", "already watertight", 0, TRUE))
    ELSE IF throws
    THEN Pair(heap, ref, RepairLog("FILL_HOLES", "failed", 0, FALSE))
    ELSE Pair([ heap EXCEPT ![ref] = FillHolesOp(heap[ref], alt) ], ref,
              RepairLog("FILL_HOLES", "filled", 1, TRUE))

\* MeshRepairer._fill_holes; `throws`: the fill pass raises.
FillHoles(heap, ref, throws, alt) ==
    IF IsWatertight(heap[ref])
    THEN Pair(heap, ref, RepairLog("FILL_HOLES", "already watertight", 0, TRUE))
    ELSE IF throws
    THEN Pair(heap, ref, RepairLog("FILL_HOLES", "failed", 0, FALSE))
    ELSE LET after == FillHolesOp(heap[ref], alt)
             is_now_watertight == IsWatertight(after)
         IN Pair([ heap EXCEPT ![ref] = after ], ref,
                 RepairLog("FILL_HOLES", "filled",
                           IF is_now_watertight THEN 1 ELSE 0,
                           is_now_watertight))

\* RepairResult
RepairResult(heap, ref, was_modified, log) ==
    [ kind |-> "RepairResult", heap |-> heap, mesh |-> ref,
      was_modified |-> was_modified, log |-> log ]

\* ---------------------------------------------------------- input solids
\* A tetrahedron with legs 2, 1, 1 and a fifth apex beyond its slanted face.
PtO == << 0, 0, 0 >>

PtA == << 2, 0, 0 >>

PtB == << 0, 1, 0 >>

PtC == << 0, 0, 1 >>

PtE == << 2, 1, 1 >>

Shift(p) == << p[1] + 5, p[2], p[3] >>

TetVerts == << PtO, PtA, PtB, PtC >>

\* Faces of the tetrahedron, wound outward.
TetFaces == << <<1, 3, 2>>, <<1, 2, 4>>, <<1, 4, 3>>, <<2, 3, 4>> >>

Offset(faces, d) ==
    [ i \in 1..Len(faces) |-> [ k \in 1..3 |-> faces[i][k] + d ] ]

ClosedTet == [ v |-> TetVerts, f |-> TetFaces ]

InvertedTet ==
    [ v |-> TetVerts, f |-> [ i \in 1..4 |-> Reverse(TetFaces[i]) ] ]

FlippedFaceTet ==
    [ v |-> TetVerts, f |-> [ TetFaces EXCEPT ![4] = Reverse(TetFaces[4]) ] ]

\* One face missing: a triangular hole.
OpenTet == [ v |-> TetVerts, f |-> SubSeq(TetFaces, 1, 3) ]

BipyramidVerts == TetVerts \o << PtE >>

\* Two adjacent faces of the bipyramid missing: a quad hole.
QuadHoleSolid ==
    [ v |-> BipyramidVerts,
      f |-> << <<1, 2, 4>>, <<1, 4, 3>>, <<4, 2, 5>>, <<3, 4, 5>> >> ]

\* Three faces of the bipyramid missing: a five-edge hole.
PentHoleSolid ==
    [ v |-> BipyramidVerts,
      f |-> << <<1, 4, 3>>, <<2, 3, 5>>, <<3, 4, 5>> >> ]

\* A closed surface enclosing nothing: one triangle, both sides.
Pillow == [ v |-> SubSeq(TetVerts, 1, 3), f |-> << <<1, 2, 3>>, <<1, 3, 2>> >> ]

\* trimesh.util.concatenate of two bodies, the second moved away.
Concatenate(m1, m2) ==
    [ v |-> m1.v \o [ j \in 1..Len(m2.v) |-> Shift(m2.v[j]) ],
      f |-> m1.f \o Offset(m2.f, Len(m1.v)) ]

TwoTets == Concatenate(ClosedTet, ClosedTet)

\* The closed tetrahedron with its origin stored twice and one vertex that
\* no face uses.
DupVertexTet ==
    [ v |-> TetVerts \o << PtO, PtE >>,
      f |-> << <<1, 3, 2>>, <<1, 2, 4>>, <<5, 4, 3>>, <<2, 3, 4>> >> ]

\* The closed tetrahedron plus a zero-area face.
DegenerateTet == [ v |-> TetVerts, f |-> TetFaces \o << <<1, 2, 2>> >> ]

OnlyDegenerate == [ v |-> SubSeq(TetVerts, 1, 2), f |-> << <<1, 2, 2>> >> ]

EmptyMesh == [ v |-> << >>, f |-> << >> ]

\* Every face stored twice: no edge is open, every edge is in four faces.
DoubledTet == [ v |-> TetVerts, f |-> TetFaces \o TetFaces ]

\* A body with a five-edge hole next to a body with a triangular hole.
PartlyFillable == Concatenate(PentHoleSolid, OpenTet)

InputMeshes ==
    { ClosedTet, InvertedTet, FlippedFaceTet, OpenTet, QuadHoleSolid,
      PentHoleSolid, Pillow, TwoTets, DupVertexTet, DegenerateTet,
      OnlyDegenerate, EmptyMesh, DoubledTet, PartlyFillable }

\* ----------------------------------------------------- repair_aggressive
\* What the comprehensive backend (pymeshfix.MeshFix.repair) can do with its
\* input arrays: raise, hand them back as they are, or hand back a closed,
\* outward-wound solid.  Given no faces at all it raises.
BackendOutcomes == { "throws", "same", "closed" }

BackendOutput(m, outcome) == IF outcome = "same" THEN m ELSE ClosedTet

\* trimesh.Trimesh(vertices=..., faces=...): construction merges vertices.
NewTrimesh(raw) == MergeVerticesOp(raw)

\* Bug variant: the backend call is not guarded, its exception escapes.
RepairAggressive_Unguarded(heap, mesh, available, outcome) ==
    IF ~available
    THEN RepairResult(heap, mesh, FALSE,
             << RepairLog("PYMESHFIX_REPAIR", "not available", 0, FALSE) >>)
    ELSE
    LET c == Copy(heap, mesh, "mesh_copy")
        mesh_copy == c.heap[c.mesh]
    IN IF outcome = "throws" \/ IsEmpty(mesh_copy)
       THEN [ kind |-> "raised", exc |-> "RuntimeError", heap |-> c.heap ]
       ELSE
       LET raw == BackendOutput(mesh_copy, outcome)
           vertex_diff == Abs(Len(raw.v) - Len(mesh_copy.v))
           face_diff == Abs(Len(raw.f) - Len(mesh_copy.f))
       IN RepairResult([ c.heap EXCEPT !["repaired"] = NewTrimesh(raw) ],
                       "repaired", TRUE,
                       << RepairLog("PYMESHFIX_REPAIR", "repaired",
                                    vertex_diff + face_diff, TRUE) >>)

\* MeshRepairer.repair_aggressive
RepairAggressive(heap, mesh, available, outcome) ==
    IF ~available
    THEN RepairResult(heap, mesh, FALSE,
             << RepairLog("PYMESHFIX_REPAIR", "not available", 0, FALSE) >>)
    ELSE
    LET c == Copy(heap, mesh, "mesh_copy")
        mesh_copy == c.heap[c.mesh]
    IN IF outcome = "throws" \/ IsEmpty(mesh_copy)
       THEN RepairResult(c.heap, mesh, FALSE,
                << RepairLog("PYMESHFIX_REPAIR", "failed", 0, FALSE) >>)
       ELSE
       LET raw == BackendOutput(mesh_copy, outcome)
           vertex_diff == Abs(Len(raw.v) - Len(mesh_copy.v))
           face_diff == Abs(Len(raw.f) - Len(mesh_copy.f))
       IN RepairResult([ c.heap EXCEPT !["repaired"] = NewTrimesh(raw) ],
                       "repaired", TRUE,
                       << RepairLog("PYMESHFIX_REPAIR", "repaired",
                                    vertex_diff + face_diff, TRUE) >>)

\* ------------------------------------------------------------------ repair
\* What the libraries do during one call: for each position of the action
\* list whether its library call raises, which diagonal a quad fill takes
\* and what the backend does.
Env(actions) ==
    [ throws  : SUBSET { i \in 1..Len(actions) :
                           actions[i] \in { "FIX_NORMALS", "FILL_HOLES" } },
      alt     : IF "FILL_HOLES" \in Range(actions) THEN BOOLEAN ELSE { FALSE },
      backend : IF "PYMESHFIX_REPAIR" \in Range(actions)
                THEN BackendOutcomes ELSE { "same" } ]

\* MeshRepairer._perform_action: the handler table and the fallback.
PerformAction(heap, mesh, action, available, throws, env) ==
    CASE action = "MERGE_VERTICES" -> MergeVertices(heap, mesh)
      [] action = "REMOVE_DEGENERATE" -> RemoveDegenerateFaces(heap, mesh)
      [] action = "FIX_NORMALS" -> FixNormals(heap, mesh, throws)
      [] action = "FILL_HOLES" -> FillHoles(heap, mesh, throws, env.alt)
      [] action = "PYMESHFIX_REPAIR" ->
            RepairAggressive(heap, mesh, available, env.backend)
      [] OTHER -> Pair(heap, mesh, RepairLog(action, "unknown action", 0, FALSE))

\* The pipeline repair() runs when actions is None.
DefaultActions ==
    << "MERGE_VERTICES", "REMOVE_DEGENERATE", "FIX_NORMALS", "FILL_HOLES" >>

\* repair, the loop's "if entry.success and entry.affected_elements > 0".
Applied(entry) == entry.success /\ entry.affected_elements > 0

\* repair, log.append(entry).
AppendLog(log, entry) == Append(log, entry)

RECURSIVE RepairLoop(_, _, _, _, _, _, _, _, _)
RECURSIVE LoopBody(_, _, _, _, _, _, _, _, _)
\* repair, the body of "for action in actions" at position i, given what
\* _perform_action handed back.  Unpacking it into (result_mesh, entry)
\* raises TypeError when it is not a tuple.
LoopBody(r, mesh, was_modified, log, actions, i, available, env, seen) ==
    IF r.kind # "tuple"
    THEN [ kind |-> "raised", exc |-> "TypeError", heap |-> r.heap ]
    ELSE RepairLoop(r.heap,
                    IF Applied(r.entry) THEN r.mesh ELSE mesh,
                    was_modified \/ Applied(r.entry),
                    AppendLog(log, r.entry),
                    actions, i + 1, available, env, seen)

\* repair, "for action in actions", from position i on.  `seen` is the
\* history of the loop: the value of the object `mesh` names at the top of
\* each iteration, closed by its value at the return statement.
RepairLoop(heap, mesh, was_modified, log, actions, i, available, env, seen) ==
    IF i > Len(actions)
    THEN RepairResult(heap, mesh, was_modified, log)
            @@ [ seen |-> Append(seen, heap[mesh]) ]
    ELSE LoopBody(PerformAction(heap, mesh, actions[i], available,
                               i \in env.throws, env),
                  mesh, was_modified, log, actions, i, available, env,
                  Append(seen, heap[mesh]))

\* "if actions is None": actions is Optional[List[RepairAction]].
EffectiveActions(actions) ==
    IF actions = None THEN DefaultActions ELSE actions[1]

\* MeshRepairer.repair
Repair(heap, mesh, actions, available, env) ==
    LET c == Copy(heap, mesh, "work")
    IN RepairLoop(c.heap, c.mesh, FALSE, << >>, EffectiveActions(actions),
                  1, available, env, << >>)

\* What the caller sees of a repair call: the exception, or the
\* RepairResult with the value of the mesh object it refers to.
Outcome(r) ==
    IF r.kind = "raised" THEN [ kind |-> "raised", exc |-> r.exc ]
    ELSE [ kind |-> "returned", mesh |-> r.heap[r.mesh], mesh_ref |-> r.mesh,
           was_modified |-> r.was_modified, log |-> r.log ]

\* ---------------------------------------------------------------- exporter
\* STLFormat
STLFormats == { "BINARY", "ASCII" }

\* ExportSettings: the fields export() branches on.
ExportSettings ==
    [ format : STLFormats,
      validate_before_export : BOOLEAN,
      repair_if_invalid : BOOLEAN ]

\* ExportResult
ExportResult(success, file_path, file_size_bytes, triangle_count, validation_result, repair_result, error_message) ==
    [ success |-> success, file_path |-> file_path,
      file_size_bytes |-> file_size_bytes, triangle_count |-> triangle_count,
      validation_result |-> validation_result,
      repair_result |-> repair_result, error_message |-> error_message ]

OutputPath == "output_path"

\* The size of the file mesh.export writes: a binary STL is an 84 byte
\* header and 50 bytes a triangle; the ASCII text is taken at the exporter's
\* own figure of 200 bytes a triangle.
FileSize(format, mesh) ==
    IF format = "BINARY" THEN 84 + 50 * Len(mesh.f) ELSE 200 * Len(mesh.f)

\* What the file system does to the serialisation step.
IoOutcomes == { "ok", "mkdir_fails", "write_fails" }

\* The locals of export() on the way to the serialisation step: the working
\* mesh, the two result variables, and the exception on its way out, if any.
\* `steps` is the history of the collaborators called so far and `first` the
\* result of the first validation.
Locals(mesh, validation_result, repair_result, steps, first, raised) ==
    [ mesh |-> mesh, validation_result |-> validation_result,
      repair_result |-> repair_result, steps |-> steps, first |-> first,
      raised |-> raised ]

\* Bug variant: the repair branch is taken whatever the validation said.
NeedsRepair_Always(validation_result, settings) == settings.repair_if_invalid

\* export, "if not validation_result.is_valid and settings.repair_if_invalid"
NeedsRepair(validation_result, settings) ==
    ~validation_result.is_valid /\ settings.repair_if_invalid

\* Bug variant: the working mesh is not rebound after the repair.
WorkingMesh_Original(mesh, repair_result) == mesh

\* export, "mesh = repair_result.mesh"
WorkingMesh(mesh, repair_result) == repair_result.mesh

\* export, what the re-validation leaves in the locals: its result, or its
\* exception on the way out.
AfterRevalidation(m2, v1, r, v2, steps) ==
    IF v2.kind = "raised"
    THEN Locals(m2, Some(v1), Some(r), steps, Some(v1), Some(v2.exc))
    ELSE Locals(m2, Some(v2), Some(r), steps, Some(v1), None)

\* export, "validation_result = self.validator.validate(mesh)" after repair.
Revalidate(m2, v1, r, steps) ==
    AfterRevalidation(m2, v1, r, Validate(m2, DefaultConfig),
                      Append(steps, "validate"))

\* export, after "repair_result = self.repairer.repair(mesh)": rebind the
\* mesh and validate again, unless repair raised.
AfterRepair(mesh, v1, r, steps) ==
    IF r.kind = "raised"
    THEN Locals(mesh, Some(v1), None, steps, Some(v1), Some(r.exc))
    ELSE Revalidate(WorkingMesh(mesh, r), v1, r, steps)

\* Bug variant: a mesh still invalid after the repair is repaired again.
RepairStep_Twice(mesh, v1, available, env, steps) ==
    LET r1 == Outcome(Repair(NewHeap(mesh), "caller", None, available, env))
        m1 == IF r1.kind = "raised" THEN mesh ELSE r1.mesh
        c1 == Validate(m1, DefaultConfig)
        again == c1.kind = "returned" /\ ~c1.is_valid
        r == IF again
             THEN Outcome(Repair(NewHeap(m1), "caller", None, available, env))
             ELSE r1
        s2 == IF again
              THEN steps \o << "repair", "validate", "repair" >>
              ELSE Append(steps, "repair")
    IN IF r.kind = "raised"
       THEN Locals(mesh, Some(v1), None, s2, Some(v1), Some(r.exc))
       ELSE LET v2 == Validate(r.mesh, DefaultConfig)
                s3 == Append(s2, "validate")
            IN IF v2.kind = "raised"
               THEN Locals(r.mesh, Some(v1), Some(r), s3, Some(v1),
                           Some(v2.exc))
               ELSE Locals(r.mesh, Some(v2), Some(r), s3, Some(v1), None)

\* export, the repair branch: repair, rebind the mesh, validate again.
\* Neither call is guarded, so what they raise leaves export().
RepairStep(mesh, v1, available, env, steps) ==
    AfterRepair(mesh, v1,
                Outcome(Repair(NewHeap(mesh), "caller", None, available, env)),
                Append(steps, "repair"))

\* export, after the first validation: v1 is what validate returned or
\* raised.
AfterValidation(mesh, v1, settings, available, env, steps) ==
    IF v1.kind = "raised"
    THEN Locals(mesh, None, None, steps, None, Some(v1.exc))
    ELSE IF NeedsRepair(v1, settings)
    THEN RepairStep(mesh, v1, available, env, steps)
    ELSE Locals(mesh, Some(v1), None, steps, Some(v1), None)

\* export, "if settings.validate_before_export": the exporter's validator is
\* MeshValidator() with its defaults.
ValidateAndRepair(mesh, settings, available, env, steps) ==
    IF ~settings.validate_before_export
    THEN Locals(mesh, None, None, steps, None, None)
    ELSE AfterValidation(mesh, Validate(mesh, DefaultConfig), settings,
                         available, env, Append(steps, "validate"))

\* One run of export() or export_mesh() as its caller and the file system
\* see it: the ExportResult returned or the exception raised, whether the
\* output directory and file exist afterwards, and the run's history.
Run(kind, result, exc, w, dir_created, file) ==
    [ kind |-> kind, result |-> result, exc |-> exc, steps |-> w.steps,
      first |-> w.first,
      computed |-> [ validation_result |-> w.validation_result,
                     repair_result |-> w.repair_result ],
      dir_created |-> dir_created, file |-> file ]

\* Bug variant: a failed tessellation goes on to validate and write an
\* empty mesh.
TessellationFailure_GoesOn(steps) ==
    Run("returned",
        ExportResult(FALSE, None, 0, 0, None, None,
                     Some("Failed to convert model to mesh")),
        None,
        Locals(EmptyMesh, None, None, steps \o << "validate", "serialize" >>,
               None, None),
        TRUE, None)

\* export, "except Exception" around model.to_mesh.
TessellationFailure(steps) ==
    Run("returned",
        ExportResult(FALSE, None, 0, 0, None, None,
                     Some("Failed to convert model to mesh")),
        None, Locals(EmptyMesh, None, None, steps, None, None), FALSE, None)

\* Bug variant: a failed write reports no validation and no repair.
Serialize_DropsResults(w, settings, io, message) ==
    LET here == [ w EXCEPT !.steps = Append(w.steps, "serialize") ]
    IN IF io = "ok"
       THEN Run("returned",
                ExportResult(TRUE, Some(OutputPath),
                             FileSize(settings.format, w.mesh),
                             Len(w.mesh.f), w.validation_result,
                             w.repair_result, None),
                None, here, TRUE,
                Some([ format |-> settings.format, mesh |-> w.mesh ]))
       ELSE Run("returned",
                ExportResult(FALSE, None, 0, Len(w.mesh.f), None, None,
                             Some(message)),
                None, here, io = "write_fails", None)

\* export, the guarded block that makes the directory, writes the file and
\* reads its size.
Serialize(w, settings, io, message) ==
    LET here == [ w EXCEPT !.steps = Append(w.steps, "serialize") ]
    IN IF io = "ok"
       THEN Run("returned",
                ExportResult(TRUE, Some(OutputPath),
                             FileSize(settings.format, w.mesh),
                             Len(w.mesh.f), w.validation_result,
                             w.repair_result, None),
                None, here, TRUE,
                Some([ format |-> settings.format, mesh |-> w.mesh ]))
       ELSE Run("returned",
                ExportResult(FALSE, None, 0, Len(w.mesh.f),
                             w.validation_result, w.repair_result,
                             Some(message)),
                None, here, io = "write_fails", None)

\* export, from the locals on: the exception leaves, or the mesh is written.
Finish(w, settings, io, message) ==
    IF w.raised # None
    THEN Run("raised", None, w.raised, w, FALSE, None)
    ELSE Serialize(w, settings, io, message)

\* export_mesh; also the part of export after the tessellation.
ExportMesh(mesh, settings, available, env, io, steps, message) ==
    Finish(ValidateAndRepair(mesh, settings, available, env, steps),
           settings, io, message)

\* STLExporter.export; to_mesh is None when model.to_mesh raises, else the
\* mesh it hands back.
Export(to_mesh, settings, available, env, io) ==
    IF to_mesh = None
    THEN TessellationFailure(<< "tessellate" >>)
    ELSE ExportMesh(to_mesh[1], settings, available, env, io,
                    << "tessellate" >>, "Failed to write STL file")

\* The libraries when the repair branch is not taken.
QuietEnv == [ throws |-> {}, alt |-> FALSE, backend |-> "same" ]

\* The library behaviour an export can meet, given what its first validation
\* does: that of the default repair when the repair branch is taken.
ExportEnv(v, settings) ==
    IF /\ settings.validate_before_export
       /\ v.kind = "returned"
       /\ NeedsRepair(v, settings)
    THEN Env(DefaultActions)
    ELSE { QuietEnv }

\* ------------------------------------------------------------- the model
\* Lengths are counted in units of 0.0001 mm and angles in tenths of a degree,
\* so that every tolerance of the program is an integer.

\* ExportQuality
ExportQualities == { "DRAFT", "STANDARD", "HIGH", "ULTRA" }

\* QUALITY_TOLERANCES: 0.1, 0.01, 0.001, 0.0001
QUALITY_TOLERANCES ==
    [ q \in ExportQualities |->
        CASE q = "DRAFT" -> 1000
          [] q = "STANDARD" -> 100
          [] q = "HIGH" -> 10
          [] q = "ULTRA" -> 1 ]

\* get_angular_tolerance, angular_presets: 15.0, 5.0, 1.0, 0.5
angular_presets ==
    [ q \in ExportQualities |->
        CASE q = "DRAFT" -> 150
          [] q = "STANDARD" -> 50
          [] q = "HIGH" -> 10
          [] q = "ULTRA" -> 5 ]

\* The defaults of to_mesh: tolerance=0.001, angular_tolerance=0.1
DefaultTolerance == 10

DefaultAngularTolerance == 1

\* ExportSettings: the fields the tessellation reads.  An override is None
\* or a number, and 0.0 is a number.
QualitySettings ==
    [ quality : ExportQualities,
      tolerance : { None, Some(0), Some(100) },
      angular_tolerance : { None, Some(0), Some(50) } ]

\* Bug variant: an override of 0.0 counts as no override.
get_tolerance_Truthy(settings) ==
    IF settings.tolerance # None /\ settings.tolerance # Some(0)
    THEN settings.tolerance[1]
    ELSE QUALITY_TOLERANCES[settings.quality]

\* ExportSettings.get_tolerance
get_tolerance(settings) ==
    IF settings.tolerance # None
    THEN settings.tolerance[1]
    ELSE QUALITY_TOLERANCES[settings.quality]

\* ExportSettings.get_angular_tolerance
get_angular_tolerance(settings) ==
    IF settings.angular_tolerance # None
    THEN settings.angular_tolerance[1]
    ELSE angular_presets[settings.quality]

\* A mesh object that a tessellation built: `id` is its identity, and it
\* carries the two tolerances export_stl was given when it was built.
Tessellated(id, tolerance, angular_tolerance) ==
    [ id |-> id, tolerance |-> tolerance,
      angular_tolerance |-> angular_tolerance ]

\* MichelangeloModel.__init__: no cached mesh.  `tessellations` counts the
\* tessellations that succeeded and `latest` is the mesh of the last one.
NewModel ==
    [ mesh_cache |-> None, mesh_tolerance |-> None,
      tessellations |-> 0, latest |-> None, last |-> [ op |-> "none" ] ]

\* What a to_mesh call hands back: the mesh, or raised, and the model after.
Returned(m, mesh) == [ model |-> m, mesh |-> Some(mesh), raised |-> FALSE ]

\* Bug variant: a failed tessellation drops the cached mesh.
TessellationRaised_ClearsCache(m) ==
    [ model |-> [ m EXCEPT !.mesh_cache = None, !.mesh_tolerance = None ],
      mesh |-> None, raised |-> TRUE ]

\* to_mesh, export_stl or trimesh.load raises: the two assignments to the
\* cache are not reached.
TessellationRaised(m) == [ model |-> m, mesh |-> None, raised |-> TRUE ]

\* to_mesh, the part after the cache test: tessellate, load, cache, return.
Tessellate(m, tolerance, angular_tolerance, fails) ==
    IF fails
    THEN TessellationRaised(m)
    ELSE LET mesh == Tessellated(m.tessellations + 1, tolerance,
                                 angular_tolerance)
         IN Returned([ m EXCEPT !.mesh_cache = Some(mesh),
                                !.mesh_tolerance = Some(tolerance),
                                !.tessellations = @ + 1,
                                !.latest = Some(mesh) ],
                     mesh)

\* MichelangeloModel.to_mesh
to_mesh(m, tolerance, angular_tolerance, fails) ==
    IF m.mesh_cache # None /\ m.mesh_tolerance = Some(tolerance)
    THEN Returned(m, m.mesh_cache[1])
    ELSE Tessellate(m, tolerance, angular_tolerance, fails)

\* ------------------------------------------------------- the file watcher
\* Time is counted in ticks of a quarter of a second.

\* ModelFileHandler.__init__, debounce_seconds: float = 0.5
DebounceTicks == 2

\* The paths events arrive with, and Path.resolve(): a relative path is made
\* absolute.
Paths == { "model.py", "/session/model.py", "/session/other.py" }

Resolve(path) == IF path = "model.py" THEN "/session/model.py" ELSE path

\* watchdog's FileSystemEvent: dest_path is set on a moved event only.
FsEvent(event_type, is_directory, src_path, dest_path) ==
    [ event_type |-> event_type, is_directory |-> is_directory,
      src_path |-> src_path, dest_path |-> dest_path ]

\* The events the watched directory gives rise to.
FsEvents ==
    { FsEvent("modified", d, p, None) : d \in BOOLEAN, p \in Paths }
    \cup { FsEvent("created", FALSE, p, None) :
             p \in { "model.py", "/session/other.py" } }
    \cup { FsEvent("moved", FALSE, "/session/other.py", Some("/session/model.py")),
           FsEvent("moved", TRUE, "/session/other.py", Some("/session/model.py")),
           FsEvent("moved", FALSE, "/session/model.py", Some("/session/other.py")),
           FsEvent("deleted", FALSE, "/session/model.py", None) }

\* ModelFileHandler.__init__ for the file "model.py".  `triggers` are the
\* clock readings at which the callback was triggered and `outcome` is what
\* became of the last event.
NewHandler ==
    [ watched_path |-> Resolve("model.py"), last_trigger |-> 0,
      triggers |-> << >>, outcome |-> "none" ]

\* The handler returns without a look at the clock.
Ignored(h) == [ h EXCEPT !.outcome = "ignored" ]

\* Bug variant: the debounce admits an event half the interval after a trigger.
handle_file_change_HalfInterval(h, current_time) ==
    IF 2 * (current_time - h.last_trigger) < DebounceTicks
    THEN [ h EXCEPT !.outcome = "debounced" ]
    ELSE [ h EXCEPT !.last_trigger = current_time,
                    !.triggers = Append(@, current_time),
                    !.outcome = "triggered" ]

\* ModelFileHandler._handle_file_change, with _trigger_callback
handle_file_change(h, current_time) ==
    IF current_time - h.last_trigger < DebounceTicks
    THEN [ h EXCEPT !.outcome = "debounced" ]
    ELSE [ h EXCEPT !.last_trigger = current_time,
                    !.triggers = Append(@, current_time),
                    !.outcome = "triggered" ]

\* ModelFileHandler.on_modified
on_modified(h, event, current_time) ==
    IF event.is_directory THEN Ignored(h)
    ELSE IF Resolve(event.src_path) # h.watched_path THEN Ignored(h)
    ELSE handle_file_change(h, current_time)

\* ModelFileHandler.on_moved
on_moved(h, event, current_time) ==
    IF event.is_directory THEN Ignored(h)
    ELSE IF Resolve(event.dest_path[1]) # h.watched_path THEN Ignored(h)
    ELSE handle_file_change(h, current_time)

\* ModelFileHandler.on_created
on_created(h, event, current_time) ==
    IF event.is_directory THEN Ignored(h)
    ELSE IF Resolve(event.src_path) # h.watched_path THEN Ignored(h)
    ELSE handle_file_change(h, current_time)

\* FileSystemEventHandler.on_deleted, which the handler does not override.
on_deleted(h, event, current_time) == Ignored(h)

\* FileWatcher.__init__: one Observer, made here and never replaced.  An
\* Observer is a thread: "initial" until started, then "running", and
\* "stopped" for good once stopped and joined.
NewFileWatcher ==
    [ started |-> FALSE, observer |-> "initial",
      last |-> [ call |-> "none" ] ]

\* What a call did: the watcher after it, what it did to the observer, and
\* the exception it raised, if any.
Did(w, call, effect, raised, before) ==
    [ w EXCEPT !.last = [ call |-> call, effect |-> effect,
                          raised |-> raised, observer_before |-> before ] ]

\* FileWatcher.start, past the test of _started: self.observer.start() and
\* self._started = True.  Thread.start() raises RuntimeError on a thread that
\* was started before, and the assignment is not reached.
ObserverStart(w) ==
    IF w.observer = "initial"
    THEN Did([ w EXCEPT !.observer = "running", !.started = TRUE ],
             "start", "started", None, w.observer)
    ELSE Did(w, "start", "none", Some("RuntimeError"), w.observer)

\* FileWatcher.start
start(w) ==
    IF ~w.started THEN ObserverStart(w)
    ELSE Did(w, "start", "none", None, w.observer)

\* FileWatcher.stop: observer.stop(), observer.join(), _started = False
stop(w) ==
    IF w.started
    THEN Did([ w EXCEPT !.observer = "stopped", !.started = FALSE ],
             "stop", "stopped", None, w.observer)
    ELSE Did(w, "stop", "none", None, w.observer)

\* The clock reads a value time.time() gives, far above the debounce
\* interval; no event waits; the file is as the viewer last loaded it.
NewFileSystem == [ now |-> DebounceTicks, pending |-> << >>, dirty |-> FALSE ]

\* ------------------------------------------------------ the preview server
\* The websockets of the browsers that have the viewer open.
Clients == 1..MaxClients

\* No notify_model_change coroutine was started yet.  Of a notification, `i`
\* is the position of the list iterator of its for loop, `client` the client
\* whose send it awaits, `attempted` the clients send_json was called on,
\* `failed` those whose send raised, `present` the clients connected since
\* it began, and `caches` the two caches right after it assigned them.
NoNotify ==
    [ pc |-> "idle", i |-> 0, client |-> None, attempted |-> {},
      failed |-> {}, present |-> {}, caches |-> << None, None >> ]

\* The module globals of app.py when the server starts.
NewServer ==
    [ websocket_clients |-> << >>, model_cache |-> None,
      model_info_cache |-> None, notify |-> NoNotify ]

\* list.remove(x): the list without the first element equal to x.
ListRemove(list, x) ==
    LET k == CHOOSE k \in 1..Len(list) :
                 list[k] = x /\ \A j \in 1..(k - 1) : list[j] # x
    IN SubSeq(list, 1, k - 1) \o SubSeq(list, k + 1, Len(list))

\* websocket_endpoint up to its first receive_text: accept and append.
Accept(s, websocket) ==
    [ s EXCEPT !.websocket_clients = Append(@, websocket) ]

\* websocket_endpoint, "except WebSocketDisconnect": the client is removed
\* from the list, the very list a notification may be iterating.
Disconnected(s, websocket) ==
    [ s EXCEPT !.websocket_clients = ListRemove(@, websocket),
               !.notify.present = IF s.notify.pc = "awaiting"
                                  THEN @ \ { websocket } ELSE @ ]

\* notify_model_change, "for client in _websocket_clients": the list iterator
\* hands out the element at its position and moves on, or the loop ends; the
\* coroutine then waits in "await client.send_json(...)".
NextClient(s) ==
    IF s.notify.i < Len(s.websocket_clients)
    THEN LET client == s.websocket_clients[s.notify.i + 1]
         IN [ s EXCEPT !.notify.pc = "awaiting",
                       !.notify.i = @ + 1,
                       !.notify.client = Some(client),
                       !.notify.attempted = @ \cup { client } ]
    ELSE [ s EXCEPT !.notify.pc = "done", !.notify.client = None ]

\* notify_model_change, "_model_cache = None; _model_info_cache = None"
ClearCaches(s) ==
    [ s EXCEPT !.model_cache = None, !.model_info_cache = None ]

\* notify_model_change from its call to its first await.
notify_model_change(s) ==
    LET cleared == ClearCaches(s)
    IN NextClient([ cleared EXCEPT !.notify =
          [ NoNotify EXCEPT
              !.present = Range(s.websocket_clients),
              !.caches = << cleared.model_cache,
                            cleared.model_info_cache >> ] ])

\* notify_model_change when the awaited send_json returns or raises: the
\* exception is swallowed and the loop goes on.
SendReturned(s, raised) ==
    NextClient([ s EXCEPT !.notify.failed =
                     IF raised THEN @ \cup { s.notify.client[1] } ELSE @ ])

\* get_model_stl with a script path: the model is built again and both
\* caches are filled, or the build raises.
get_model_stl(s, raised) ==
    IF raised THEN s
    ELSE [ s EXCEPT !.model_cache = Some("stl_bytes"),
                    !.model_info_cache = Some("info") ]

\* get_model_info with a script path: the cached info if there is one, else
\* the model is built and its info cached, or the build raises.
get_model_info(s, raised) ==
    IF s.model_info_cache # None \/ raised THEN s
    ELSE [ s EXCEPT !.model_info_cache = Some("info") ]

\* ------------------------------------------------- the interactive session
\* run_interactive_session before it starts the preview server.  `pc` is the
\* statement the main thread is at, `server_process` the global
\* _server_process, `process` the state of the server's operating-system
\* process, `atexit` whether cleanup_server is registered with atexit,
\* `handlers` the signals signal_handler is installed for, `cleanups` what
\* each call of cleanup_server found and left, `tmux` the state of the tmux
\* session that runs the Claude CLI, and `ended` how the run ended.
NewSession ==
    [ pc |-> "start", server_process |-> None, process |-> "none",
      atexit |-> FALSE, handlers |-> {}, cleanups |-> << >>,
      polls |-> 0, tmux |-> "none", ended |-> None ]

\* cleanup_server: a server that is still running (poll() is None) gets
\* terminate(), and kill() if wait(timeout=5) times out; _server_process is
\* None afterwards.  `stubborn` says that the wait times out.
cleanup_server(s, stubborn) ==
    LET running == s.server_process # None /\ s.process = "running"
        after == IF ~running THEN s.process
                 ELSE IF stubborn THEN "killed" ELSE "terminated"
    IN [ s EXCEPT !.process = after, !.server_process = None,
                  !.cleanups = Append(@, [ handle |-> s.server_process,
                                           before |-> s.process,
                                           stubborn |-> stubborn,
                                           after |-> after ]) ]

\* The interpreter exits: the atexit handlers run, if any is registered.
InterpreterExit(s, how, stubborn) ==
    [ (IF s.atexit THEN cleanup_server(s, stubborn) ELSE s)
        EXCEPT !.pc = "ended", !.ended = Some(how) ]

\* An error branch of run_interactive_session: cleanup_server(); sys.exit(1)
ErrorExit(s, how, stubborn) ==
    InterpreterExit(cleanup_server(s, stubborn), how, FALSE)

\* A signal reaches the process.  With signal_handler installed for it:
\* cleanup_server(); sys.exit(0).  Without: SIGINT raises KeyboardInterrupt
\* in the main thread, which ends the interpreter, and SIGTERM ends the
\* process at once, atexit handlers and all.
Signalled(s, sig, stubborn) ==
    IF sig \in s.handlers
    THEN InterpreterExit(cleanup_server(s, stubborn), sig, FALSE)
    ELSE IF sig = "SIGINT"
    THEN InterpreterExit(s, "KeyboardInterrupt", stubborn)
    ELSE [ s EXCEPT !.pc = "ended", !.ended = Some("terminated by SIGTERM") ]


\* ------------------------------------------------------------ the system
\* A caller holding one mesh object calls the validator, the repairer and
\* the exporter on it.  `call` is the call that last completed and what it
\* handed back.
VARIABLES caller_mesh, pymeshfix_available, call

\* The other components of the program, each with its own state: a
\* MichelangeloModel, the ModelFileHandler and the FileWatcher of the preview
\* server, the server's module globals, and an interactive session.
VARIABLES model, handler, watcher, server, session

\* The clock, the events that wait for the observer thread, and whether the
\* watched file changed since the callback was last triggered.
VARIABLES fs

vars == << caller_mesh, pymeshfix_available, call, model, fs, handler, watcher, server, session >>

\* The preview server and the session around it.
preview == << fs, handler, watcher, server, session >>

\* What the validator, the repairer and the exporter of a mesh leave alone.
rest == << model, preview >>

RECURSIVE SeqsUpTo(_, _)
\* All sequences over S of length at most n.
SeqsUpTo(S, n) ==
    IF n = 0 THEN { << >> }
    ELSE LET shorter == SeqsUpTo(S, n - 1)
         IN shorter \cup { Append(q, x) : q \in shorter, x \in S }

\* The values of repair()'s `actions` argument.
ActionArgs == { None } \cup { Some(l) : l \in SeqsUpTo(RepairActions, MaxActions) }

NoCall == [ op |-> "none" ]

Init ==
    /\ caller_mesh \in InputMeshes
    /\ pymeshfix_available \in BOOLEAN
    /\ call = NoCall
    /\ model = NewModel
    /\ fs = NewFileSystem
    /\ handler = NewHandler
    /\ watcher = NewFileWatcher
    /\ server = NewServer
    /\ session = NewSession

\* Bug variant: validation tidies the caller's mesh in place.
ValidateCall_Cleaning ==
    /\ call.op = "none"
    /\ \E cfg \in Configs :
          call' = [ op |-> "validate", cfg |-> cfg,
                    mesh_before |-> caller_mesh,
                    previous |-> None,
                    result |-> Validate(caller_mesh, cfg) ]
    /\ caller_mesh' = MergeVerticesOp(caller_mesh)
    /\ UNCHANGED << pymeshfix_available, rest >>

\* MeshValidator(**cfg).validate(mesh)
ValidateCall ==
    /\ call.op = "none"
    /\ \E cfg \in Configs :
          call' = [ op |-> "validate", cfg |-> cfg,
                    mesh_before |-> caller_mesh,
                    previous |-> None,
                    result |-> Validate(caller_mesh, cfg) ]
    /\ UNCHANGED << caller_mesh, pymeshfix_available, rest >>

\* The same validator called once more on the same mesh object.
ValidateAgain ==
    /\ call.op = "validate"
    /\ call.previous = None
    /\ call' = [ call EXCEPT !.previous = Some(call.result),
                             !.mesh_before = caller_mesh,
                             !.result = Validate(caller_mesh, call.cfg) ]
    /\ UNCHANGED << caller_mesh, pymeshfix_available, rest >>

\* MeshRepairer().repair(mesh, actions)
RepairCall ==
    /\ call.op = "none"
    /\ \E actions \in ActionArgs :
        \E env \in Env(EffectiveActions(actions)) :
          LET r == Repair(NewHeap(caller_mesh), "caller", actions,
                          pymeshfix_available, env)
          IN /\ call' = [ op |-> "repair", actions |-> actions,
                          mesh_before |-> caller_mesh,
                          first |-> None,
                          seen |-> IF r.kind = "raised" THEN << >> ELSE r.seen,
                          result |-> Outcome(r) ]
             /\ caller_mesh' = r.heap["caller"]
    /\ UNCHANGED << pymeshfix_available, rest >>

\* repair(repair(mesh).mesh): the default pipeline run once more, on the
\* mesh the first default run handed back.
RepairAgain ==
    /\ call.op = "repair"
    /\ call.result.kind = "returned"
    /\ call.actions = None
    /\ call.first = None
    /\ \E env \in Env(DefaultActions) :
          LET r == Repair(NewHeap(call.result.mesh), "caller", None,
                          pymeshfix_available, env)
          IN /\ call' = [ op |-> "repair", actions |-> None,
                          mesh_before |-> call.result.mesh,
                          first |-> Some(call.result),
                          seen |-> IF r.kind = "raised" THEN << >> ELSE r.seen,
                          result |-> Outcome(r) ]
             /\ caller_mesh' = r.heap["caller"]
    /\ UNCHANGED << pymeshfix_available, rest >>

\* MeshRepairer().repair_aggressive(mesh)
RepairAggressiveCall ==
    /\ call.op = "none"
    /\ \E outcome \in BackendOutcomes :
          LET r == RepairAggressive(NewHeap(caller_mesh), "caller",
                                    pymeshfix_available, outcome)
          IN /\ call' = [ op |-> "repair_aggressive",
                          mesh_before |-> caller_mesh,
                          backend |-> outcome,
                          result |-> Outcome(r) ]
             /\ caller_mesh' = r.heap["caller"]
    /\ UNCHANGED << pymeshfix_available, rest >>

\* STLExporter().export(model, path, settings), with a model whose
\* tessellation is the caller's mesh, and export_mesh(mesh, path, settings).
ExportCall ==
    /\ call.op = "none"
    /\ \E entry \in { "export", "export_mesh" }, settings \in ExportSettings :
        \E fails \in IF entry = "export" THEN BOOLEAN ELSE { FALSE } :
         \E io \in IF fails THEN { "ok" } ELSE IoOutcomes :
          \E env \in IF fails THEN { QuietEnv }
                      ELSE ExportEnv(Validate(caller_mesh, DefaultConfig),
                                     settings) :
            LET run == IF entry = "export"
                       THEN Export(IF fails THEN None ELSE Some(caller_mesh),
                                   settings, pymeshfix_available, env, io)
                       ELSE ExportMesh(caller_mesh, settings,
                                       pymeshfix_available, env, io,
                                       << >>, "str(e)")
            IN call' = [ op |-> "export", entry |-> entry,
                         settings |-> settings,
                         tessellation_failed |-> fails, io |-> io,
                         mesh_before |-> caller_mesh, run |-> run ]
    /\ UNCHANGED << caller_mesh, pymeshfix_available, rest >>

\* The caller drops the result and keeps its mesh.
Discard ==
    /\ call.op # "none"
    /\ call' = NoCall
    /\ UNCHANGED << caller_mesh, pymeshfix_available, rest >>

\* The caller goes on with the repaired mesh: mesh = repair_result.mesh.
\* The program's callers do so after repair(mesh) without an action list and
\* after repair_aggressive(mesh).
Adopt ==
    /\ call.op \in { "repair", "repair_aggressive" }
    /\ call.op = "repair" => call.actions = None
    /\ call.result.kind = "returned"
    /\ caller_mesh' = call.result.mesh
    /\ call' = NoCall
    /\ UNCHANGED << pymeshfix_available, rest >>

Next ==
    \/ ValidateCall
    \/ ValidateAgain
    \/ RepairCall
    \/ RepairAgain
    \/ RepairAggressiveCall
    \/ ExportCall
    \/ Discard
    \/ Adopt

Spec == Init /\ [][Next]_vars

\* ------------------------------------------------- the model and its cache
\* One MichelangeloModel and the callers of its to_mesh: the exporter's
\* export, export_to_bytes and estimate_file_size, and a direct caller.
\* `model.last` is the call that last completed: what it asked of to_mesh,
\* what came back, and the cache as the call found it.

mesh_vars == << caller_mesh, pymeshfix_available, call >>

\* No validator, repairer or mesh exporter call is under way.
MeshIdle ==
    /\ caller_mesh = EmptyMesh
    /\ pymeshfix_available = FALSE
    /\ call = NoCall

ModelInit ==
    /\ MeshIdle
    /\ model = NewModel
    /\ fs = NewFileSystem
    /\ handler = NewHandler
    /\ watcher = NewFileWatcher
    /\ server = NewServer
    /\ session = NewSession

\* The cache fields of a model.
Cache(m) ==
    [ mesh_cache |-> m.mesh_cache, mesh_tolerance |-> m.mesh_tolerance,
      latest |-> m.latest, tessellations |-> m.tessellations ]

\* The model after a call of `op` that asked to_mesh for (tolerance,
\* angular_tolerance) and got r.
Called(op, settings, tolerance, angular_tolerance, r, before) ==
    [ r.model EXCEPT !.last =
        [ op |-> op, settings |-> settings, tolerance |-> tolerance,
          angular_tolerance |-> angular_tolerance,
          raised |-> r.raised, mesh |-> r.mesh, before |-> before ] ]

\* model.to_mesh(tolerance, angular_tolerance)
ModelToMesh ==
    /\ \E tolerance \in { DefaultTolerance, 100 },
          angular_tolerance \in { DefaultAngularTolerance, 50 },
          fails \in BOOLEAN :
           LET after == Called("to_mesh", None, tolerance, angular_tolerance,
                               to_mesh(model, tolerance, angular_tolerance,
                                       fails),
                               Cache(model))
           IN /\ after.tessellations <= MaxTessellations
              /\ model' = after
    /\ UNCHANGED << mesh_vars, preview >>

\* STLExporter.export up to the mesh it goes on with: to_mesh at the
\* settings' two tolerances.  What export does with the mesh is ExportCall.
ModelExport ==
    /\ \E settings \in QualitySettings, fails \in BOOLEAN :
           LET after == Called("export", Some(settings),
                               get_tolerance(settings),
                               get_angular_tolerance(settings),
                               to_mesh(model, get_tolerance(settings),
                                       get_angular_tolerance(settings),
                                       fails),
                               Cache(model))
           IN /\ after.tessellations <= MaxTessellations
              /\ model' = after
    /\ UNCHANGED << mesh_vars, preview >>

\* STLExporter.export_to_bytes: model.to_mesh(tolerance=tolerance)
ModelExportToBytes ==
    /\ \E settings \in QualitySettings, fails \in BOOLEAN :
           LET after == Called("export_to_bytes", Some(settings),
                               get_tolerance(settings),
                               DefaultAngularTolerance,
                               to_mesh(model, get_tolerance(settings),
                                       DefaultAngularTolerance, fails),
                               Cache(model))
           IN /\ after.tessellations <= MaxTessellations
              /\ model' = after
    /\ UNCHANGED << mesh_vars, preview >>

\* STLExporter.estimate_file_size: model.to_mesh(tolerance=...)
ModelEstimateFileSize ==
    /\ \E settings \in QualitySettings, fails \in BOOLEAN :
           LET after == Called("estimate_file_size", Some(settings),
                               get_tolerance(settings),
                               DefaultAngularTolerance,
                               to_mesh(model, get_tolerance(settings),
                                       DefaultAngularTolerance, fails),
                               Cache(model))
           IN /\ after.tessellations <= MaxTessellations
              /\ model' = after
    /\ UNCHANGED << mesh_vars, preview >>

ModelNext ==
    \/ ModelToMesh
    \/ ModelExport
    \/ ModelExportToBytes
    \/ ModelEstimateFileSize

SpecModel == ModelInit /\ [][ModelNext]_vars

\* --------------------------------------------- the watcher of the model file
\* A FileWatcher that watch("model.py", callback) gave one handler.  Its
\* owner calls start() and stop(); while the observer runs, the file system
\* queues events, the observer thread hands them to the handler one at a
\* time, and the clock goes on.

WatcherInit ==
    /\ MeshIdle
    /\ model = NewModel
    /\ fs = NewFileSystem
    /\ handler = NewHandler
    /\ watcher = NewFileWatcher
    /\ server = NewServer
    /\ session = NewSession

\* The event tells of new contents of the watched file.
ChangesWatchedFile(event) ==
    /\ ~event.is_directory
    /\ \/ /\ event.event_type \in { "modified", "created" }
          /\ Resolve(event.src_path) = Resolve("model.py")
       \/ /\ event.event_type = "moved"
          /\ Resolve(event.dest_path[1]) = Resolve("model.py")

\* The file system once the handler dealt with the first waiting event.
Dispatched(h) ==
    [ fs EXCEPT !.pending = Tail(@),
                !.dirty = IF h.outcome = "triggered" THEN FALSE ELSE @ ]

\* FileWatcher.start
StartCall ==
    /\ watcher' = start(watcher)
    /\ UNCHANGED << mesh_vars, model, fs, handler, server, session >>

\* FileWatcher.stop; the events the observer thread did not get to are lost.
StopCall ==
    /\ watcher' = stop(watcher)
    /\ fs' = IF watcher.started THEN [ fs EXCEPT !.pending = << >> ] ELSE fs
    /\ UNCHANGED << mesh_vars, model, handler, server, session >>

\* Something happens in the watched directory and the running observer
\* queues the event.
FileSystemEvent ==
    /\ watcher.observer = "running"
    /\ fs.now < MaxTime
    /\ Len(fs.pending) < MaxPending
    /\ \E event \in FsEvents :
          fs' = [ fs EXCEPT !.pending = Append(@, event),
                            !.dirty = @ \/ ChangesWatchedFile(event) ]
    /\ UNCHANGED << mesh_vars, model, handler, watcher, server, session >>

\* The observer thread calls on_modified with the first waiting event.
OnModified ==
    /\ watcher.observer = "running"
    /\ fs.pending # << >>
    /\ Head(fs.pending).event_type = "modified"
    /\ handler' = on_modified(handler, Head(fs.pending), fs.now)
    /\ fs' = Dispatched(handler')
    /\ UNCHANGED << mesh_vars, model, watcher, server, session >>

\* The observer thread calls on_moved with the first waiting event.
OnMoved ==
    /\ watcher.observer = "running"
    /\ fs.pending # << >>
    /\ Head(fs.pending).event_type = "moved"
    /\ handler' = on_moved(handler, Head(fs.pending), fs.now)
    /\ fs' = Dispatched(handler')
    /\ UNCHANGED << mesh_vars, model, watcher, server, session >>

\* The observer thread calls on_created with the first waiting event.
OnCreated ==
    /\ watcher.observer = "running"
    /\ fs.pending # << >>
    /\ Head(fs.pending).event_type = "created"
    /\ handler' = on_created(handler, Head(fs.pending), fs.now)
    /\ fs' = Dispatched(handler')
    /\ UNCHANGED << mesh_vars, model, watcher, server, session >>

\* The observer thread calls on_deleted with the first waiting event.
OnDeleted ==
    /\ watcher.observer = "running"
    /\ fs.pending # << >>
    /\ Head(fs.pending).event_type = "deleted"
    /\ handler' = on_deleted(handler, Head(fs.pending), fs.now)
    /\ fs' = Dispatched(handler')
    /\ UNCHANGED << mesh_vars, model, watcher, server, session >>

\* EventDispatcher.run: the observer thread takes the next event.
Dispatch == OnModified \/ OnMoved \/ OnCreated \/ OnDeleted

\* A quarter of a second passes.
Tick ==
    /\ fs.now < MaxTime
    /\ fs' = [ fs EXCEPT !.now = @ + 1 ]
    /\ UNCHANGED << mesh_vars, model, handler, watcher, server, session >>

WatcherNext ==
    \/ StartCall
    \/ StopCall
    \/ FileSystemEvent
    \/ Dispatch
    \/ Tick

SpecWatcher == WatcherInit /\ [][WatcherNext]_vars

\* The observer thread is a thread of its own and keeps taking events off
\* its queue, and time passes.
SpecWatcherLive == SpecWatcher /\ WF_vars(Dispatch) /\ WF_vars(Tick)

\* ------------------------------------- the preview server and its clients
\* The coroutines of the server's event loop: each action runs one of them
\* from one await to the next.  One notification runs at a time.

ServerInit ==
    /\ MeshIdle
    /\ model = NewModel
    /\ fs = NewFileSystem
    /\ handler = NewHandler
    /\ watcher = NewFileWatcher
    /\ server = NewServer
    /\ session = NewSession

\* A browser opens the websocket: websocket_endpoint accepts and appends it.
WebsocketConnect ==
    /\ \E websocket \in Clients \ Range(server.websocket_clients) :
          server' = Accept(server, websocket)
    /\ UNCHANGED << mesh_vars, model, fs, handler, watcher, session >>

\* A browser goes away: receive_text raises WebSocketDisconnect.
WebsocketDisconnect ==
    /\ \E websocket \in Range(server.websocket_clients) :
          server' = Disconnected(server, websocket)
    /\ UNCHANGED << mesh_vars, model, fs, handler, watcher, session >>

\* The watcher's callback: notify_model_change() starts.
NotifyModelChange ==
    /\ server.notify.pc # "awaiting"
    /\ server' = notify_model_change(server)
    /\ UNCHANGED << mesh_vars, model, fs, handler, watcher, session >>

\* The send the notification awaits is over.
SendJsonReturns ==
    /\ server.notify.pc = "awaiting"
    /\ \E raised \in BOOLEAN : server' = SendReturned(server, raised)
    /\ UNCHANGED << mesh_vars, model, fs, handler, watcher, session >>

\* GET /model.stl
GetModelStl ==
    /\ \E raised \in BOOLEAN : server' = get_model_stl(server, raised)
    /\ UNCHANGED << mesh_vars, model, fs, handler, watcher, session >>

\* GET /model/info
GetModelInfo ==
    /\ \E raised \in BOOLEAN : server' = get_model_info(server, raised)
    /\ UNCHANGED << mesh_vars, model, fs, handler, watcher, session >>

ServerNext ==
    \/ WebsocketConnect
    \/ WebsocketDisconnect
    \/ NotifyModelChange
    \/ SendJsonReturns
    \/ GetModelStl
    \/ GetModelInfo

SpecServer == ServerInit /\ [][ServerNext]_vars

\* ------------------------------------------------ one interactive session
\* The main thread of "mcc session" goes through run_interactive_session
\* statement by statement; a signal can reach the process between any two
\* of them, and the server process can exit on its own.

SessionInit ==
    /\ MeshIdle
    /\ model = NewModel
    /\ fs = NewFileSystem
    /\ handler = NewHandler
    /\ watcher = NewFileWatcher
    /\ server = NewServer
    /\ session = NewSession

\* _server_process = start_preview_server(model_path, port, open_browser)
StartPreviewServer ==
    /\ session.pc = "start"
    /\ session' = [ session EXCEPT !.pc = "started",
                                   !.server_process = Some("proc"),
                                   !.process = "running" ]
    /\ UNCHANGED << mesh_vars, model, fs, handler, watcher, server >>

\* atexit.register(cleanup_server)
RegisterAtexit ==
    /\ session.pc = "started"
    /\ session' = [ session EXCEPT !.pc = "registered", !.atexit = TRUE ]
    /\ UNCHANGED << mesh_vars, model, fs, handler, watcher, server >>

\* signal.signal(signal.SIGINT, signal_handler)
InstallSigint ==
    /\ session.pc = "registered"
    /\ session' = [ session EXCEPT !.pc = "sigint",
                                   !.handlers = @ \cup { "SIGINT" } ]
    /\ UNCHANGED << mesh_vars, model, fs, handler, watcher, server >>

\* signal.signal(signal.SIGTERM, signal_handler)
InstallSigterm ==
    /\ session.pc = "sigint"
    /\ session' = [ session EXCEPT !.pc = "wait_ready",
                                   !.handlers = @ \cup { "SIGTERM" } ]
    /\ UNCHANGED << mesh_vars, model, fs, handler, watcher, server >>

\* One round of the loop of wait_for_server_ready: the connection is made
\* and the function returns True, or it is refused and the loop sleeps.
PollServer ==
    /\ session.pc = "wait_ready"
    /\ session.polls < MaxPolls
    /\ \E connected \in BOOLEAN :
          session' = IF connected
                     THEN [ session EXCEPT !.pc = "check_tmux" ]
                     ELSE [ session EXCEPT !.polls = @ + 1 ]
    /\ UNCHANGED << mesh_vars, model, fs, handler, watcher, server >>

\* The timeout of wait_for_server_ready has passed: it returns False, and
\* run_interactive_session does cleanup_server(); sys.exit(1)
WaitForServerReady ==
    /\ session.pc = "wait_ready"
    /\ session.polls = MaxPolls
    /\ \E stubborn \in BOOLEAN :
          session' = ErrorExit(session, "server never ready", stubborn)
    /\ UNCHANGED << mesh_vars, model, fs, handler, watcher, server >>

\* if not check_tmux_installed(): cleanup_server(); sys.exit(1)
CheckTmux ==
    /\ session.pc = "check_tmux"
    /\ \E installed \in BOOLEAN, stubborn \in BOOLEAN :
          session' = IF installed
                     THEN [ session EXCEPT !.pc = "check_claude" ]
                     ELSE ErrorExit(session, "tmux missing", stubborn)
    /\ UNCHANGED << mesh_vars, model, fs, handler, watcher, server >>

\* if not shutil.which("claude"): cleanup_server(); sys.exit(1)
CheckClaude ==
    /\ session.pc = "check_claude"
    /\ \E installed \in BOOLEAN, stubborn \in BOOLEAN :
          session' = IF installed
                     THEN [ session EXCEPT !.pc = "create_tmux" ]
                     ELSE ErrorExit(session, "claude missing", stubborn)
    /\ UNCHANGED << mesh_vars, model, fs, handler, watcher, server >>

\* if not create_tmux_session(...): cleanup_server(); sys.exit(1)
CreateTmuxSession ==
    /\ session.pc = "create_tmux"
    /\ \E created \in BOOLEAN, stubborn \in BOOLEAN :
          session' = IF created
                     THEN [ session EXCEPT !.pc = "attached",
                                           !.tmux = "running" ]
                     ELSE ErrorExit(session, "tmux session not created",
                                    stubborn)
    /\ UNCHANGED << mesh_vars, model, fs, handler, watcher, server >>

\* attach_tmux_session returns on detach or exit; the tmux session is
\* killed if it is still there; cleanup_server(); the summary is printed,
\* the function returns and the interpreter exits.
AttachReturns ==
    /\ session.pc = "attached"
    /\ \E stubborn \in BOOLEAN :
          session' = ErrorExit([ session EXCEPT !.tmux =
                                    IF @ = "running" THEN "killed" ELSE @ ],
                               "returned", stubborn)
    /\ UNCHANGED << mesh_vars, model, fs, handler, watcher, server >>

\* SIGINT or SIGTERM reaches the process once the server was started.
Signal ==
    /\ session.pc \notin { "start", "ended" }
    /\ \E sig \in { "SIGINT", "SIGTERM" }, stubborn \in BOOLEAN :
          session' = Signalled(session, sig, stubborn)
    /\ UNCHANGED << mesh_vars, model, fs, handler, watcher, server >>

\* The server process ends on its own.
ServerProcessExits ==
    /\ session.process = "running"
    /\ session' = [ session EXCEPT !.process = "exited" ]
    /\ UNCHANGED << mesh_vars, model, fs, handler, watcher, server >>

\* The Claude CLI exits, and the tmux session with it.
TmuxSessionEnds ==
    /\ session.tmux = "running"
    /\ session' = [ session EXCEPT !.tmux = "exited" ]
    /\ UNCHANGED << mesh_vars, model, fs, handler, watcher, server >>

SessionNext ==
    \/ StartPreviewServer
    \/ RegisterAtexit
    \/ InstallSigint
    \/ InstallSigterm
    \/ PollServer
    \/ WaitForServerReady
    \/ CheckTmux
    \/ CheckClaude
    \/ CreateTmuxSession
    \/ AttachReturns
    \/ Signal
    \/ ServerProcessExits
    \/ TmuxSessionEnds

SpecSession == SessionInit /\ [][SessionNext]_vars

\* ------------------------------------------------------- claim vocabulary
Validated == call.op = "validate" /\ call.result.kind = "returned"

Repaired == call.op = "repair" /\ call.result.kind = "returned"

HasIssue(issues, sev, code) ==
    \E n \in 1..Len(issues) :
        issues[n].severity = sev /\ issues[n].code = code

SharesEdge(m, i, j) ==
    FaceSortedEdges(m.f[i]) \cap FaceSortedEdges(m.f[j]) # {}

RECURSIVE Body(_, _)
\* The faces reachable from the faces S across shared edges.
Body(m, S) ==
    LET more == S \cup { j \in FaceIdx(m) : \E i \in S : SharesEdge(m, i, j) }
    IN IF more = S THEN S ELSE Body(m, more)

\* The number of connected components under shared-edge face adjacency.
ComponentCount(m) == Cardinality({ Body(m, {i}) : i \in FaceIdx(m) })

Exported == call.op = "export" /\ call.run.kind = "returned"

\* How often a collaborator appears in the history of a run.
Count(steps, name) == Cardinality({ i \in 1..Len(steps) : steps[i] = name })

NoDuplicateVertices(m) ==
    \A i, j \in 1..Len(m.v) : i # j => m.v[i] # m.v[j]

NoDegenerateFaces(m) == \A i \in FaceIdx(m) : ~IsDegenerateFace(m, i)

\* ------------------------------------------------------------------ claims
\* C1: a mesh with two or more connected components is reported with an
\* ERROR issue DISCONNECTED_PARTS carrying the true component count, and is
\* not valid.
C1_DisconnectedPartsReported ==
    (Validated /\ ComponentCount(call.mesh_before) >= 2) =>
        /\ \E n \in 1..Len(call.result.issues) :
              /\ call.result.issues[n].code = "DISCONNECTED_PARTS"
              /\ call.result.issues[n].severity = "ERROR"
              /\ call.result.issues[n].details.component_count
                    = ComponentCount(call.mesh_before)
        /\ ~call.result.is_valid

\* C2: a returned ValidationResult has is_valid true exactly when none of its
\* issues has severity ERROR.
C2_ValidIffNoError ==
    Validated =>
        ( call.result.is_valid <=>
            \A n \in 1..Len(call.result.issues) :
                call.result.issues[n].severity # "ERROR" )

\* A valid result that nevertheless carries issues.
C2_Witness ==
    /\ Validated
    /\ call.result.is_valid
    /\ Len(call.result.issues) > 0

\* C3: a returned ValidationResult has is_printable equal to
\* is_watertight and is_valid.
C3_PrintableIffWatertightAndValid ==
    Validated =>
        ( call.result.is_printable <=>
            (call.result.is_watertight /\ call.result.is_valid) )

\* A printable result whose mesh drew warnings.
C3_Witness ==
    /\ Validated
    /\ call.result.is_printable
    /\ HasIssue(call.result.issues, "WARNING", "INCONSISTENT_WINDING")

\* C4: the volume is present exactly when is_watertight, the ERROR issue
\* NOT_WATERTIGHT is present exactly when not is_watertight, and a mesh that
\* is not watertight is never valid.
C4_VolumeIffWatertight ==
    Validated =>
        /\ (call.result.volume # None) <=> call.result.is_watertight
        /\ HasIssue(call.result.issues, "ERROR", "NOT_WATERTIGHT")
              <=> ~call.result.is_watertight
        /\ ~call.result.is_watertight => ~call.result.is_valid

\* An open mesh validated: no volume, NOT_WATERTIGHT first among the issues.
C4_Witness ==
    /\ Validated
    /\ ~call.result.is_watertight
    /\ call.result.volume = None
    /\ call.result.issues[1].code = "NOT_WATERTIGHT"

\* C5: a watertight mesh of one component without degenerate faces is valid
\* and has a volume that is present and strictly positive.
C5_ClosedSolidHasPositiveVolume ==
    ( /\ Validated
      /\ IsWatertight(call.mesh_before)
      /\ ComponentCount(call.mesh_before) = 1
      /\ \A i \in FaceIdx(call.mesh_before) :
            ~IsDegenerateFace(call.mesh_before, i) )
    => /\ call.result.is_valid
       /\ call.result.volume # None
       /\ call.result.volume[1] > 0

C7_RepairNeverRaises ==
    call.op = "repair" =>
        /\ call.result.kind = "returned"
        /\ Len(call.result.log) = Len(EffectiveActions(call.actions))
        /\ \A i \in 1..Len(call.result.log) :
              EffectiveActions(call.actions)[i] = "REMOVE_DUPLICATES"
                  => ~call.result.log[i].success

\* C8: a RepairResult of repair or repair_aggressive has was_modified true
\* exactly when some log entry has success and affected_elements > 0.
C8_ModifiedIffEffectiveEntry ==
    ( /\ call.op \in { "repair", "repair_aggressive" }
      /\ call.result.kind = "returned" )
    => ( call.result.was_modified <=>
            \E i \in 1..Len(call.result.log) :
                /\ call.result.log[i].success
                /\ call.result.log[i].affected_elements > 0 )

\* C9: the log of repair has one entry per element of the action list, in
\* order and with the same tag; without an action list the tags are
\* MERGE_VERTICES, REMOVE_DEGENERATE, FIX_NORMALS, FILL_HOLES.
C9_LogMirrorsActions ==
    call.op = "repair" =>
        LET wanted == IF call.actions = None
                      THEN << "MERGE_VERTICES", "REMOVE_DEGENERATE",
                              "FIX_NORMALS", "FILL_HOLES" >>
                      ELSE call.actions[1]
        IN /\ call.result.kind = "returned"
           /\ Len(call.result.log) = Len(wanted)
           /\ \A i \in 1..Len(wanted) : call.result.log[i].action = wanted[i]

\* C10: after repair or repair_aggressive, returned or raised, the caller's
\* mesh has the vertices and faces it had before the call.
C10_CallerMeshUntouched ==
    call.op \in { "repair", "repair_aggressive" } =>
        caller_mesh = call.mesh_before

\* A repair that changed its working copy: the mesh handed back differs from
\* the caller's.
C10_Witness ==
    /\ Repaired
    /\ call.result.was_modified
    /\ call.result.mesh_ref = "work"
    /\ call.result.mesh # call.mesh_before
    /\ \E i \in 1..Len(call.result.log) :
          /\ call.result.log[i].action = "MERGE_VERTICES"
          /\ call.result.log[i].affected_elements > 0

\* C11: in repair, an action that reports success false leaves the working
\* mesh as it was: the next action, or the return statement after the last
\* one, sees the mesh the failed action was handed.
C11_FailedActionLeavesMesh ==
    Repaired =>
        \A n \in 1..Len(call.result.log) :
            ~call.result.log[n].success =>
                call.seen[n + 1] = call.seen[n]

\* C12: a FILL_HOLES action handed a watertight mesh reports success with
\* affected_elements 0 and leaves the mesh alone; handed an open mesh it
\* reports success exactly when the mesh is watertight after the pass, so
\* never while a boundary edge remains; and a list of FILL_HOLES actions
\* never makes repair raise.
C12_FillHolesReport ==
    /\ ( /\ call.op = "repair"
         /\ Range(EffectiveActions(call.actions)) = { "FILL_HOLES" } )
       => call.result.kind = "returned"
    /\ Repaired =>
          \A n \in 1..Len(call.result.log) :
              call.result.log[n].action = "FILL_HOLES" =>
                  LET entry == call.result.log[n]
                      before == call.seen[n]
                      after == call.seen[n + 1]
                  IN /\ IsWatertight(before) =>
                          /\ entry.success
                          /\ entry.affected_elements = 0
                          /\ after = before
                     /\ ~IsWatertight(before) =>
                          (entry.success <=> IsWatertight(after))
                     /\ BoundaryEdges(after) # {} => ~entry.success

\* A lone FILL_HOLES on an open mesh that the pass closed.
C12_Witness ==
    /\ Repaired
    /\ call.actions = Some(<< "FILL_HOLES" >>)
    /\ ~IsWatertight(call.seen[1])
    /\ Len(call.seen[2].f) > Len(call.seen[1].f)
    /\ IsWatertight(call.seen[2])
    /\ call.result.log[1].success

\* C13: when a first default repair hands back a watertight mesh without
\* duplicate vertices or degenerate faces, a second default repair of that
\* mesh reports was_modified false.
C13_RepairIdempotent ==
    ( /\ Repaired
      /\ call.first # None
      /\ IsWatertight(call.first[1].mesh)
      /\ NoDuplicateVertices(call.first[1].mesh)
      /\ NoDegenerateFaces(call.first[1].mesh) )
    => ~call.result.was_modified

\* C14: repair_aggressive always returns, with a log of exactly one entry
\* tagged PYMESHFIX_REPAIR; when the backend is not installed or raises, the
\* entry has success false and affected_elements 0, was_modified is false
\* and the mesh handed back is the caller's own mesh object.
C14_AggressiveNeverRaises ==
    call.op = "repair_aggressive" =>
        /\ call.result.kind = "returned"
        /\ Len(call.result.log) = 1
        /\ call.result.log[1].action = "PYMESHFIX_REPAIR"
        /\ (~pymeshfix_available \/ call.backend = "throws") =>
              /\ ~call.result.log[1].success
              /\ call.result.log[1].affected_elements = 0
              /\ ~call.result.was_modified
              /\ call.result.mesh_ref = "caller"
              /\ call.result.mesh = call.mesh_before

\* The backend is installed and raises on a mesh that has faces.
C14_Witness ==
    /\ call.op = "repair_aggressive"
    /\ pymeshfix_available
    /\ call.backend = "throws"
    /\ ~IsEmpty(call.mesh_before)
    /\ call.result.kind = "returned"
    /\ call.result.log[1].description = "failed"

\* C15: in a run of export or export_mesh the tessellation comes first, the
\* serialisation last, a repair directly follows a validation and is directly
\* followed by the re-validation, which happens only after a repair; the
\* repairer is called at most once and the validator at most twice; and
\* when the re-validation still finds the mesh invalid the run ends with the
\* serialisation.
C15_PipelineOrder ==
    call.op = "export" =>
        LET steps == call.run.steps
        IN /\ call.entry = "export" => steps[1] = "tessellate"
           /\ \A i \in 1..Len(steps) :
                /\ steps[i] = "tessellate" => i = 1 /\ call.entry = "export"
                /\ steps[i] = "serialize" => i = Len(steps)
                /\ steps[i] = "repair" =>
                      /\ i > 1 /\ steps[i - 1] = "validate"
                      /\ i < Len(steps) => steps[i + 1] = "validate"
                /\ ( steps[i] = "validate"
                     /\ \E j \in 1..(i - 1) : steps[j] = "validate" )
                      => steps[i - 1] = "repair"
           /\ Count(steps, "repair") <= 1
           /\ Count(steps, "validate") <= 2
           /\ ( /\ call.run.kind = "returned"
                /\ call.run.result.repair_result # None
                /\ ~call.run.result.validation_result[1].is_valid )
              => steps[Len(steps)] = "serialize"

\* An export that repaired once, found the mesh still invalid and wrote it.
C15_Witness ==
    /\ Exported
    /\ call.run.steps =
          << "tessellate", "validate", "repair", "validate", "serialize" >>
    /\ ~call.run.result.validation_result[1].is_valid
    /\ call.run.result.success

\* C16: in a returned ExportResult, repair_result is present exactly when
\* validate_before_export and repair_if_invalid are set and the first
\* validation returned is_valid false; once the tessellation has succeeded,
\* validation_result is absent exactly when validate_before_export is off.
C16_ResultFieldsPresent ==
    Exported =>
        /\ (call.run.result.repair_result # None) <=>
              /\ call.settings.validate_before_export
              /\ call.settings.repair_if_invalid
              /\ call.run.first # None
              /\ ~call.run.first[1].is_valid
        /\ ~call.tessellation_failed =>
              ( (call.run.result.validation_result = None) <=>
                    ~call.settings.validate_before_export )

\* A valid mesh exported with both switches on: validated, not repaired.
C16_Witness ==
    /\ Exported
    /\ call.settings.validate_before_export
    /\ call.settings.repair_if_invalid
    /\ call.run.result.validation_result # None
    /\ call.run.result.validation_result[1].is_valid
    /\ call.run.result.repair_result = None

\* C17: when export ran the repair, the triangle_count is the face count of
\* repair_result.mesh, the file written holds that mesh, and
\* validation_result is the validation of that mesh.
C17_RepairedMeshExported ==
    (Exported /\ call.run.result.repair_result # None) =>
        LET repaired == call.run.result.repair_result[1].mesh
        IN /\ call.run.result.triangle_count = Len(repaired.f)
           /\ call.run.file # None => call.run.file[1].mesh = repaired
           /\ call.run.result.validation_result
                 = Some(Validate(repaired, DefaultConfig))

\* An export whose repair closed the mesh: the file holds one face more than
\* the mesh handed in, and the validation reports it valid.
C17_Witness ==
    /\ Exported
    /\ call.run.result.repair_result # None
    /\ call.run.file # None
    /\ Len(call.run.file[1].mesh.f) > Len(call.mesh_before.f)
    /\ call.run.result.validation_result[1].is_valid

C19_WriteFailureKeepsResults ==
    ( /\ Exported
      /\ "serialize" \in Range(call.run.steps)
      /\ call.io # "ok" )
    => /\ ~call.run.result.success
       /\ call.run.result.error_message # None
       /\ call.run.result.validation_result
             = call.run.computed.validation_result
       /\ call.run.result.repair_result = call.run.computed.repair_result

\* The write fails after a validation and a repair.
C19_Witness ==
    /\ Exported
    /\ call.io = "write_fails"
    /\ ~call.run.result.success
    /\ call.run.result.validation_result # None
    /\ call.run.result.repair_result # None

\* C20: export and export_mesh always return an ExportResult; whatever fails
\* shows as success false with an error message.
C20_ExportNeverRaises ==
    call.op = "export" =>
        /\ call.run.kind = "returned"
        /\ ~call.run.result.success => call.run.result.error_message # None


\* to_mesh was called, by whichever caller.
Tessellating == model.last.op # "none"

\* The call found a cached mesh made at the linear tolerance it asked for.
MostRecentUsed(before, tolerance) ==
    before.latest # None /\ before.latest[1].tolerance = tolerance

\* C21: get_tolerance() and get_angular_tolerance() return the explicit
\* override whenever one is set and otherwise the table value of the quality
\* preset (DRAFT 0.1/15.0, STANDARD 0.01/5.0, HIGH 0.001/1.0, ULTRA
\* 0.0001/0.5); without overrides the tolerance falls strictly from DRAFT to
\* STANDARD to HIGH to ULTRA.
C21_ToleranceOfSettings ==
    model.last.op = "export" =>
        LET s == model.last.settings[1]
            plain(q) == [ quality |-> q, tolerance |-> None,
                          angular_tolerance |-> None ]
        IN /\ s.tolerance # None => model.last.tolerance = s.tolerance[1]
           /\ s.angular_tolerance # None =>
                  model.last.angular_tolerance = s.angular_tolerance[1]
           /\ s.tolerance = None =>
                  model.last.tolerance =
                      CASE s.quality = "DRAFT" -> 1000
                        [] s.quality = "STANDARD" -> 100
                        [] s.quality = "HIGH" -> 10
                        [] s.quality = "ULTRA" -> 1
           /\ s.angular_tolerance = None =>
                  model.last.angular_tolerance =
                      CASE s.quality = "DRAFT" -> 150
                        [] s.quality = "STANDARD" -> 50
                        [] s.quality = "HIGH" -> 10
                        [] s.quality = "ULTRA" -> 5
           /\ get_tolerance(plain("DRAFT")) > get_tolerance(plain("STANDARD"))
           /\ get_tolerance(plain("STANDARD")) > get_tolerance(plain("HIGH"))
           /\ get_tolerance(plain("HIGH")) > get_tolerance(plain("ULTRA"))

\* export ran with an override of 0.0 for the linear tolerance and the preset
\* for the angle.
C21_Witness ==
    /\ model.last.op = "export"
    /\ model.last.settings[1].tolerance = Some(0)
    /\ model.last.settings[1].angular_tolerance = None
    /\ model.last.settings[1].quality = "ULTRA"
    /\ model.last.tolerance = 0
    /\ model.last.angular_tolerance = 5

\* C22: to_mesh(t) returns the identical cached mesh object when the most
\* recent successful tessellation used linear tolerance t; otherwise it
\* tessellates again, returns a new mesh and makes (new mesh, t) the cache
\* entry; and a failed tessellation leaves the cache unchanged.
C22_CacheByTolerance ==
    Tessellating =>
        LET l == model.last
            b == l.before
        IN IF MostRecentUsed(b, l.tolerance)
           THEN /\ ~l.raised
                /\ l.mesh = b.latest
                /\ Cache(model) = b
           ELSE IF l.raised
           THEN /\ model.mesh_cache = b.mesh_cache
                /\ model.mesh_tolerance = b.mesh_tolerance
                /\ model.tessellations = b.tessellations
           ELSE /\ l.mesh # None
                /\ l.mesh[1].id > b.tessellations
                /\ model.mesh_cache = l.mesh
                /\ model.mesh_tolerance = Some(l.tolerance)

\* A tessellation at another tolerance failed while a mesh was cached, and
\* the cached mesh is still there.
C22_Witness ==
    /\ Tessellating
    /\ model.last.raised
    /\ model.last.before.mesh_cache # None
    /\ model.last.before.mesh_tolerance # Some(model.last.tolerance)
    /\ model.mesh_cache = model.last.before.mesh_cache

\* C28: every mesh to_mesh(tolerance, angular_tolerance) returns was
\* tessellated with exactly the linear and the angular tolerance asked for,
\* whatever to_mesh, export, export_to_bytes and estimate_file_size calls
\* came before on the same model.
C28_MeshAtRequestedTolerances ==
    Tessellating /\ ~model.last.raised =>
        /\ model.last.mesh[1].tolerance = model.last.tolerance
        /\ model.last.mesh[1].angular_tolerance = model.last.angular_tolerance

\* The undirected edges of m that belong to exactly one face.
EdgesOfOneFace(m) ==
    LET edges == UNION { FaceSortedEdges(m.f[i]) : i \in FaceIdx(m) }
    IN { k \in edges :
           Cardinality({ i \in FaceIdx(m) : k \in FaceSortedEdges(m.f[i]) }) = 1 }

EdgesOccurringOnce(m) ==
    LET side(i, k) == << Min2(m.f[i][k], m.f[i][(k % 3) + 1]),
                         Max2(m.f[i][k], m.f[i][(k % 3) + 1]) >>
        sides == FaceIdx(m) \X (1..3)
    IN { e \in { side(x[1], x[2]) : x \in sides } :
           Cardinality({ x \in sides : side(x[1], x[2]) = e }) = 1 }

C29_UnmodifiedMeansSameMesh ==
    Repaired /\ ~call.result.was_modified =>
        /\ call.result.mesh.v = call.mesh_before.v
        /\ call.result.mesh.f = call.mesh_before.f

\* A non-directory event whose path, or destination when moved, resolves to
\* the watched file.
ForWatchedFile(event) ==
    /\ ~event.is_directory
    /\ \/ /\ event.event_type \in { "modified", "created" }
          /\ Resolve(event.src_path) = handler.watched_path
       \/ /\ event.event_type = "moved"
          /\ Resolve(event.dest_path[1]) = handler.watched_path

\* One step of the watcher, as C24 allows it.
C24_Step ==
    LET triggered == Len(handler'.triggers) > Len(handler.triggers)
        times == handler'.triggers
    IN /\ triggered =>
              /\ fs.pending # << >>
              /\ ForWatchedFile(Head(fs.pending))
       /\ \A i, j \in 1..Len(times) :
              i < j => times[j] - times[i] >= DebounceTicks
       /\ ~triggered => handler'.last_trigger = handler.last_trigger

\* C24: the callback is triggered only by non-directory events whose path
\* (modified, created) or destination (moved) resolves to the watched file,
\* any two triggers are at least debounce_seconds apart, and an ignored or
\* debounced event leaves _last_trigger unchanged.
C24_TriggersFilteredAndSpaced == [][C24_Step]_vars

\* The callback was triggered twice and the event after that was debounced.
C24_Witness ==
    /\ Len(handler.triggers) >= 2
    /\ handler.outcome = "debounced"
    /\ handler.last_trigger = handler.triggers[Len(handler.triggers)]

\* C25: after any sequence of start() and stop() calls on one FileWatcher no
\* call raised, the observer was started only when not running and stopped
\* only when running, and _started is true exactly when the most recent call
\* was start().
C25_StartStopSafe ==
    watcher.last.call # "none" =>
        /\ watcher.last.raised = None
        /\ watcher.last.effect = "started" =>
               watcher.last.observer_before # "running"
        /\ watcher.last.effect = "stopped" =>
               watcher.last.observer_before = "running"
        /\ watcher.started <=> watcher.last.call = "start"

\* C30: every change to the watched file is eventually followed by a
\* trigger of the callback at or after it, as long as the observer runs.
C30_EveryChangeTriggers ==
    (fs.dirty /\ watcher.observer = "running")
        ~> (~fs.dirty \/ watcher.observer # "running")

\* C26: a notify_model_change() that ran to its end set both caches to None
\* and called send_json on every websocket client that was connected from
\* its beginning to its end, whatever sends failed and whichever other
\* clients disconnected while it awaited a send.
C26_EveryConnectedClientNotified ==
    server.notify.pc = "done" =>
        /\ server.notify.caches = << None, None >>
        /\ server.notify.present \subseteq server.notify.attempted

\* C27: when run_interactive_session has ended after the server process was
\* started, cleanup_server() was called; every cleanup_server() call left
\* the server process not running (killed when terminate() did not end it
\* in time) and _server_process None; and a call after the first changed
\* nothing.
C27_CleanupOnEveryPath ==
    /\ session.ended # None => Len(session.cleanups) > 0
    /\ Len(session.cleanups) > 0 => session.server_process = None
    /\ \A n \in 1..Len(session.cleanups) :
          LET c == session.cleanups[n]
          IN /\ c.after # "running"
             /\ c.before = "running" /\ c.handle # None /\ c.stubborn =>
                    c.after = "killed"
             /\ n > 1 => c.handle = None /\ c.after = c.before
=========================================================================
